---- MODULE Spec2Model ----
(***************************************************************************)
(* Model of aretext's token tree (syntax2/parser/tokentree.go), input      *)
(* modes (input/mode.go, input/interpreter.go) and cursor locators         *)
(* (internal/pkg/exec/locator.go).                                         *)
(*                                                                         *)
(* Each subsystem has its own specification (SpecTree, SpecInput,          *)
(* SpecLocator); the variables of the other subsystems stay at their       *)
(* initial value.                                                          *)
(***************************************************************************)
EXTENDS Integers, Sequences, FiniteSets, TLC

VARIABLES
  \* ---- token tree ----
  heap,      \* allocated TokenTree nodes; a *TokenTree is an index, 0 is nil
  cur,       \* the tree the tokenizer is building (root pointer)
  toks,      \* ghost: tokens successfully inserted into cur, in insertion order
  iter,      \* TokenIter.stack (node pointers, last element is the top)
  iterRoot,  \* the tree the iterator was built from
  iterPos,   \* ghost: position passed to IterFromPosition
  iterLen,   \* ghost: Len(toks) when the iterator was built
  iterAdv,   \* ghost: number of Advance calls on the iterator
  splitA,    \* tree of the tokens before the split point
  splitB,    \* tree of the tokens from the split point on
  splitSrc,  \* the tree that was split
  splitLen,  \* ghost: Len(toks) when the tree was split
  joined,    \* result of the last Join of splitA and splitB
  res,       \* outcome of the last token tree operation
  \* ---- input interpreter ----
  inputMode,   \* config.InputMode, part of the editor state
  loop,        \* position of the main loop: "read" an event or "apply" the action
  vmModes,     \* Interpreter.modes: the vmMode (runtime, eventBuffer, inputBuffer)
               \* of each VM-backed mode
  action,      \* the Action returned by the last ProcessKeyEvent
  lastEvent,   \* ghost: the last key event and the mode that interpreted it
  vmResult,    \* ghost: the vm.Result of the last ProcessEvent
  matchBuf,    \* ghost: eventBuffer when the runtime processed the last event
  \* ---- cursor locators ----
  text,        \* state.tree: the runes of the buffer
  cursor,      \* state.cursor: (position, logicalOffset)
  lastLoc,     \* ghost: the locator that produced the cursor
  fromCursor,  \* ghost: the cursor the last locator started from
  afterLineEnd, \* ghost: the locator before the last was LineBoundary(forward, false)
  \* ---- regular expressions ----
  regexpInput,  \* the string given to ParseRegexp
  regexpResult, \* what ParseRegexp returned: (regexp, pos, err)
  \* ---- XML tokenizer ----
  xmlInput,    \* the runes of the document given to the tokenizer
  xmlPos,      \* position of the tokenizer loop
  xmlState,    \* the parser state threaded through the runs of the parse func
  xmlTokens,   \* the tokens recorded so far: (role, start, end)
  emptyRunOk   \* whether a run of zero runes counts as a success

treeVars == <<heap, cur, toks, iter, iterRoot, iterPos, iterLen, iterAdv,
              splitA, splitB, splitSrc, splitLen, joined, res>>

inputVars == <<inputMode, loop, vmModes, action, lastEvent, vmResult, matchBuf>>

locVars == <<text, cursor, lastLoc, fromCursor, afterLineEnd>>

regexpVars == <<regexpInput, regexpResult>>

xmlVars == <<xmlInput, xmlPos, xmlState, xmlTokens, emptyRunOk>>

vars == <<treeVars, inputVars, locVars, regexpVars, xmlVars>>

\* ---- bounds ----
MaxPos == 3
MaxTokens == 3
MaxHeap == 12
MaxTextLen == 3
MaxCount == 2
MaxOffset == 5
MaxLineTextLen == 4
MaxRegexpLen == 4
MaxSubjectLen == 3
MaxXmlPieces == 3

NIL == 0
NONE == "none"

RECURSIVE SeqMin(_)
SeqMin(s) == IF Len(s) = 1 THEN s[1]
             ELSE LET m == SeqMin(Tail(s)) IN IF s[1] < m THEN s[1] ELSE m

RECURSIVE SeqMax(_)
SeqMax(s) == IF Len(s) = 1 THEN s[1]
             ELSE LET m == SeqMax(Tail(s)) IN IF s[1] > m THEN s[1] ELSE m

Range(s) == {s[i] : i \in 1..Len(s)}

Reverse(s) == [i \in 1..Len(s) |-> s[Len(s) + 1 - i]]

(***************************************************************************)
(* Token tree                                                              *)
(***************************************************************************)

\* Token (the fields the tree reads)
Token(s, e, l) == [StartPos |-> s, EndPos |-> e, LookaheadPos |-> l]

\* the tokens Insert is called with: any start and end, the lookahead at the end
\* or one before it
TokenArgs ==
  {t \in [StartPos : 0..MaxPos, EndPos : 0..MaxPos, LookaheadPos : 0..MaxPos] :
     t.LookaheadPos \in {t.EndPos - 1, t.EndPos}}

\* &TokenTree{...}: a new node at the end of the heap
Alloc(h, node) == [heap |-> Append(h, node), root |-> Len(h) + 1, panic |-> FALSE]

Panic(h) == [heap |-> h, root |-> NIL, panic |-> TRUE]

\* validateNewToken: TRUE when it returns, FALSE when it panics
validateNewTokenZeroLen(token) ==
  ~(token.StartPos > token.EndPos) /\ ~(token.EndPos > token.LookaheadPos)

validateNewToken(token) ==
  ~(token.StartPos >= token.EndPos) /\ ~(token.EndPos > token.LookaheadPos)

\* a bug that updates the receiver instead of copying it
withLeftChildInPlace(h, t, child) ==
  [heap |-> [h EXCEPT ![t].leftChild = child,
                      ![t].minStartPos =
                         IF h[child].minStartPos < h[t].minStartPos
                         THEN h[child].minStartPos ELSE h[t].minStartPos],
   root |-> t, panic |-> FALSE]

withLeftChild(h, t, child) ==
  LET minStartPos == IF h[child].minStartPos < h[t].minStartPos
                     THEN h[child].minStartPos ELSE h[t].minStartPos
  IN Alloc(h, [token |-> h[t].token,
               minStartPos |-> minStartPos,
               maxEndPos |-> h[t].maxEndPos,
               leftChild |-> child,
               rightChild |-> h[t].rightChild])

\* a bug that hangs the new subtree on the wrong side
withRightChildAsLeft(h, t, child) ==
  LET maxEndPos == IF h[child].maxEndPos > h[t].maxEndPos
                   THEN h[child].maxEndPos ELSE h[t].maxEndPos
  IN Alloc(h, [token |-> h[t].token,
               minStartPos |-> h[t].minStartPos,
               maxEndPos |-> maxEndPos,
               leftChild |-> child,
               rightChild |-> h[t].rightChild])

withRightChild(h, t, child) ==
  LET maxEndPos == IF h[child].maxEndPos > h[t].maxEndPos
                   THEN h[child].maxEndPos ELSE h[t].maxEndPos
  IN Alloc(h, [token |-> h[t].token,
               minStartPos |-> h[t].minStartPos,
               maxEndPos |-> maxEndPos,
               leftChild |-> h[t].leftChild,
               rightChild |-> child])

\* TokenTree.Insert; the result is the heap with the new nodes and the new root,
\* or a panic (no tree, the heap as it was)
RECURSIVE Insert(_, _, _)
Insert(h, t, token) ==
  IF ~validateNewToken(token) THEN Panic(h)
  ELSE IF t = NIL THEN
    Alloc(h, [token |-> token,
              minStartPos |-> token.StartPos,
              maxEndPos |-> token.EndPos,
              leftChild |-> NIL,
              rightChild |-> NIL])
  ELSE IF token.EndPos <= h[t].token.StartPos THEN
    LET r == Insert(h, h[t].leftChild, token)
    IN IF r.panic THEN Panic(h) ELSE withLeftChild(r.heap, t, r.root)
  ELSE IF token.StartPos >= h[t].token.EndPos THEN
    LET r == Insert(h, h[t].rightChild, token)
    IN IF r.panic THEN Panic(h) ELSE withRightChild(r.heap, t, r.root)
  ELSE Panic(h)

\* the node Join builds when other lies before t
JoinNodeBeforeStaleMin(h, t, other, child) ==
  [token |-> h[t].token,
   minStartPos |-> h[t].minStartPos,
   maxEndPos |-> h[t].maxEndPos,
   leftChild |-> child,
   rightChild |-> h[t].rightChild]

JoinNodeBefore(h, t, other, child) ==
  [token |-> h[t].token,
   minStartPos |-> h[other].minStartPos,
   maxEndPos |-> h[t].maxEndPos,
   leftChild |-> child,
   rightChild |-> h[t].rightChild]

\* the node Join builds when other lies after t
JoinNodeAfter(h, t, other, child) ==
  [token |-> h[t].token,
   minStartPos |-> h[t].minStartPos,
   maxEndPos |-> h[other].maxEndPos,
   leftChild |-> h[t].leftChild,
   rightChild |-> child]

\* TokenTree.Join
RECURSIVE Join(_, _, _)
Join(h, t, other) ==
  IF t = NIL /\ other = NIL THEN [heap |-> h, root |-> NIL, panic |-> FALSE]
  ELSE IF t = NIL THEN [heap |-> h, root |-> other, panic |-> FALSE]
  ELSE IF other = NIL THEN [heap |-> h, root |-> t, panic |-> FALSE]
  ELSE IF h[other].maxEndPos <= h[t].minStartPos THEN
    LET r == Join(h, h[t].leftChild, other)
    IN IF r.panic THEN Panic(h)
       ELSE Alloc(r.heap, JoinNodeBefore(r.heap, t, other, r.root))
  ELSE IF h[other].minStartPos >= h[t].maxEndPos THEN
    LET r == Join(h, h[t].rightChild, other)
    IN IF r.panic THEN Panic(h)
       ELSE Alloc(r.heap, JoinNodeAfter(r.heap, t, other, r.root))
  ELSE Panic(h)

\* the loop of IterFromPosition
RECURSIVE IterDescend(_, _, _, _)
IterDescend(h, t, pos, stack) ==
  IF t = NIL THEN stack
  ELSE IF pos < h[t].token.StartPos THEN
    IterDescend(h, h[t].leftChild, pos, Append(stack, t))
  ELSE IF pos >= h[t].token.EndPos THEN
    IterDescend(h, h[t].rightChild, pos, stack)
  ELSE Append(stack, t)

\* a bug that treats a token as ending one position later
IterFromPositionOffByOne(h, t, pos) == IterDescend(h, t, pos - 1, <<>>)

\* TokenTree.IterFromPosition: the iterator's stack
IterFromPosition(h, t, pos) == IterDescend(h, t, pos, <<>>)

\* the loop of Advance: push t and all its left descendants
RECURSIVE PushLeft(_, _, _)
PushLeft(h, stack, t) ==
  IF t = NIL THEN stack ELSE PushLeft(h, Append(stack, t), h[t].leftChild)

\* TokenIter.Advance
Advance(h, stack) ==
  IF Len(stack) = 0 THEN stack
  ELSE PushLeft(h, SubSeq(stack, 1, Len(stack) - 1), h[stack[Len(stack)]].rightChild)

\* TokenIter.Get: <<tok>> when there is a current token, <<>> otherwise
Get(h, stack) == IF Len(stack) = 0 THEN <<>> ELSE <<h[stack[Len(stack)]].token>>

\* TokenIter.Collect
RECURSIVE Collect(_, _)
Collect(h, stack) ==
  IF Get(h, stack) = <<>> THEN <<>>
  ELSE Get(h, stack) \o Collect(h, Advance(h, stack))

\* IterFromPosition(0).Collect()
Traversal(h, t) == Collect(h, IterFromPosition(h, t, 0))

\* ---- token tree operations ----

NoRes == [op |-> NONE, panic |-> FALSE, arg |-> NONE]

InitTree ==
  /\ heap = <<>>
  /\ cur = NIL
  /\ toks = <<>>
  /\ iter = <<>>
  /\ iterRoot = NIL
  /\ iterPos = -1
  /\ iterLen = 0
  /\ iterAdv = 0
  /\ splitA = NIL
  /\ splitB = NIL
  /\ splitSrc = NIL
  /\ splitLen = -1
  /\ joined = -1
  /\ res = NoRes

\* the tokenizer inserts a token into the tree it is building
InsertToken(token) ==
  /\ ~res.panic
  /\ Len(toks) < MaxTokens
  /\ splitLen = -1
  /\ LET r == Insert(heap, cur, token)
     IN /\ res' = [op |-> "Insert", panic |-> r.panic, arg |-> token]
        /\ IF r.panic
           THEN UNCHANGED <<heap, cur, toks>>
           ELSE /\ heap' = r.heap
                /\ cur' = r.root
                /\ toks' = Append(toks, token)
  /\ UNCHANGED <<iter, iterRoot, iterPos, iterLen, iterAdv,
                 splitA, splitB, splitSrc, splitLen, joined>>

\* a reader builds an iterator on the current tree
NewIter(pos) ==
  /\ ~res.panic
  /\ iter' = IterFromPosition(heap, cur, pos)
  /\ iterRoot' = cur
  /\ iterPos' = pos
  /\ iterLen' = Len(toks)
  /\ iterAdv' = 0
  /\ UNCHANGED <<heap, cur, toks, splitA, splitB, splitSrc, splitLen, joined, res>>

\* the reader advances its iterator (a no-op on an exhausted iterator)
AdvanceIter ==
  /\ ~res.panic
  /\ iterPos >= 0
  /\ iter # <<>>
  /\ iter' = Advance(heap, iter)
  /\ iterAdv' = iterAdv + 1
  /\ UNCHANGED <<heap, cur, toks, iterRoot, iterPos, iterLen,
                 splitA, splitB, splitSrc, splitLen, joined, res>>

\* insert the tokens of a sequence, in order, into the empty tree
RECURSIVE BuildTree(_, _, _)
BuildTree(h, t, seq) ==
  IF seq = <<>> THEN [heap |-> h, root |-> t, panic |-> FALSE]
  ELSE LET r == Insert(h, t, Head(seq))
       IN IF r.panic THEN Panic(h) ELSE BuildTree(r.heap, r.root, Tail(seq))

Orders == {"asc", "desc", "mid"}

InOrder(seq, order) ==
  IF order = "asc" THEN seq
  ELSE IF order = "desc" THEN Reverse(seq)
  ELSE IF Len(seq) < 2 THEN seq
  ELSE <<seq[2], seq[1]>> \o SubSeq(seq, 3, Len(seq))

\* split the current tree at pos: the tokens IterFromPosition(pos) returns go to
\* splitB, the tokens before them to splitA
Split(pos, order) ==
  LET all == Traversal(heap, cur)
      tail == Collect(heap, IterFromPosition(heap, cur, pos))
      head == SubSeq(all, 1, Len(all) - Len(tail))
      ra == BuildTree(heap, NIL, InOrder(head, order))
      rb == BuildTree(ra.heap, NIL, InOrder(tail, order))
  IN /\ ~res.panic
     /\ cur # NIL
     /\ splitLen = -1
     /\ ~ra.panic /\ ~rb.panic
     /\ Len(rb.heap) <= MaxHeap
     /\ heap' = rb.heap
     /\ splitA' = ra.root
     /\ splitB' = rb.root
     /\ splitSrc' = cur
     /\ splitLen' = Len(toks)
     /\ joined' = -1
     /\ UNCHANGED <<cur, toks, iter, iterRoot, iterPos, iterLen, iterAdv, res>>

\* re-join the two halves, with either one as the receiver
JoinSplit(recv) ==
  LET r == IF recv = "a" THEN Join(heap, splitA, splitB)
                         ELSE Join(heap, splitB, splitA)
  IN /\ ~res.panic
     /\ splitLen >= 0
     /\ Len(r.heap) <= MaxHeap
     /\ res' = [op |-> "Join", panic |-> r.panic, arg |-> recv]
     /\ heap' = r.heap
     /\ joined' = IF r.panic THEN -1 ELSE r.root
     /\ UNCHANGED <<cur, toks, iter, iterRoot, iterPos, iterLen, iterAdv,
                    splitA, splitB, splitSrc, splitLen>>


(***************************************************************************)
(* Token tree properties                                                   *)
(***************************************************************************)

\* the tokens of a set, by increasing StartPos
RECURSIVE SortByStart(_)
SortByStart(S) ==
  IF S = {} THEN <<>>
  ELSE LET first == CHOOSE t \in S : \A u \in S : t.StartPos <= u.StartPos
       IN <<first>> \o SortByStart(S \ {first})

StrictlyOrdered(seq) ==
  \A i \in 1..(Len(seq) - 1) :
    /\ seq[i].StartPos < seq[i + 1].StartPos
    /\ seq[i].EndPos <= seq[i + 1].StartPos

Overlaps(a, b) == a.StartPos < b.EndPos /\ b.StartPos < a.EndPos

\* the tokens of seq that end after pos, by increasing StartPos
EndingAfter(seq, pos) ==
  SelectSeq(SortByStart(Range(seq)), LAMBDA t : t.EndPos > pos)

\* scenario 3 of the specification: insert (0,3,3), (10,15,15), (5,8,8)
ScenarioTree ==
  BuildTree(<<>>, NIL, <<Token(0, 3, 3), Token(10, 15, 15), Token(5, 8, 8)>>)

\* C1: after any sequence of successful Insert calls from the empty tree,
\* IterFromPosition(0).Collect() yields exactly the inserted tokens, by strictly
\* increasing StartPos, each token ending at or before the start of the next.
C1_InsertKeepsOrder ==
  LET tr == Traversal(heap, cur)
  IN /\ Len(tr) = Len(toks)
     /\ Range(tr) = Range(toks)
     /\ StrictlyOrdered(tr)

\* three tokens inserted out of order: the last one goes left, then right
C1_Witness ==
  /\ res.op = "Insert" /\ ~res.panic
  /\ Len(toks) = 3
  /\ toks[2].StartPos < toks[1].StartPos
  /\ toks[3].StartPos > toks[2].StartPos
  /\ toks[3].StartPos < toks[1].StartPos

\* C2: IterFromPosition(pos) stands at the first token with EndPos > pos, and
\* collecting from it returns exactly the tokens with EndPos > pos by increasing
\* StartPos (after k calls of Advance: all but the first k of them); inserting
\* (0,3,3), (10,15,15), (5,8,8) and iterating from 6 gives (5,8,8), (10,15,15).
C2_IterFromPosition ==
  /\ iterPos >= 0 =>
       LET expected == EndingAfter(SubSeq(toks, 1, iterLen), iterPos)
       IN /\ iterAdv <= Len(expected)
          /\ Collect(heap, iter) = SubSeq(expected, iterAdv + 1, Len(expected))
          /\ Get(heap, iter) = IF iterAdv < Len(expected)
                               THEN <<expected[iterAdv + 1]>> ELSE <<>>
  /\ Collect(ScenarioTree.heap, IterFromPosition(ScenarioTree.heap, ScenarioTree.root, 6))
       = <<Token(5, 8, 8), Token(10, 15, 15)>>

\* an iterator built at a position in a gap between two tokens, not yet advanced
C2_Witness ==
  /\ iterPos >= 0 /\ iterAdv = 0 /\ iterLen >= 2
  /\ iter # <<>>
  /\ \E i \in 1..iterLen : toks[i].EndPos <= iterPos
  /\ \A i \in 1..iterLen : ~(toks[i].StartPos <= iterPos /\ iterPos < toks[i].EndPos)

\* C3: splitting a tree at any position and joining the two halves again, with
\* either half as the receiver, gives a tree with the traversal of the original
\* and with minStartPos / maxEndPos the minimum start and maximum end of all tokens.
C3_SplitJoin ==
  /\ res.op = "Join" => ~res.panic
  /\ joined >= 0 =>
       /\ Traversal(heap, joined) = Traversal(heap, splitSrc)
       /\ Len(Traversal(heap, joined)) = splitLen
       /\ joined # NIL
       /\ heap[joined].minStartPos =
            SeqMin([i \in 1..splitLen |-> toks[i].StartPos])
       /\ heap[joined].maxEndPos =
            SeqMax([i \in 1..splitLen |-> toks[i].EndPos])

\* both halves non-empty, joined with the later half as the receiver
C3_Witness ==
  /\ joined > 0
  /\ res.op = "Join" /\ res.arg = "b"
  /\ splitA # NIL /\ splitB # NIL
  /\ splitLen = 3

\* C4: Insert and Join never modify an existing node: every tree obtained earlier
\* keeps its traversal and its minStartPos / maxEndPos, and an iterator built
\* earlier still collects the same tokens.
C4_Persistent ==
  [][ /\ Len(heap') >= Len(heap)
      /\ \A n \in 1..Len(heap) :
           /\ heap'[n] = heap[n]
           /\ Traversal(heap', n) = Traversal(heap, n)
           /\ heap'[n].minStartPos = heap[n].minStartPos
           /\ heap'[n].maxEndPos = heap[n].maxEndPos
      /\ iter' = iter => Collect(heap', iter) = Collect(heap, iter) ]_vars

\* the nodes of a tree
RECURSIVE Nodes(_, _)
Nodes(h, t) ==
  IF t = NIL THEN {} ELSE {t} \cup Nodes(h, h[t].leftChild) \cup Nodes(h, h[t].rightChild)

\* an iterator on an earlier tree that shares nodes with the current one, after
\* later inserts and a join
C4_Witness ==
  /\ iterPos >= 0 /\ iter # <<>>
  /\ iterRoot # NIL /\ iterRoot # cur
  /\ iterLen < Len(toks)
  /\ Nodes(heap, iterRoot) \cap Nodes(heap, cur) # {}
  /\ joined > 0

\* what the documentation of Insert makes a programming error
MustPanic(token, seq) ==
  \/ token.StartPos >= token.EndPos
  \/ token.LookaheadPos < token.EndPos
  \/ \E i \in 1..Len(seq) : Overlaps(token, seq[i])

\* C5: Insert panics if and only if the token has StartPos >= EndPos, or
\* LookaheadPos < EndPos, or overlaps a token of the tree (any token, not only
\* the root); otherwise it returns a tree.
C5_InsertPanics ==
  /\ res.op = "Insert" =>
       (res.panic <=> MustPanic(res.arg, IF res.panic THEN toks
                                         ELSE SubSeq(toks, 1, Len(toks) - 1)))
  /\ ~res.panic =>
       \A token \in TokenArgs :
         Insert(heap, cur, token).panic <=> MustPanic(token, toks)

\* a well-formed token that overlaps a token below the root, but not the root
C5_Witness ==
  /\ res.op = "Insert" /\ res.panic
  /\ res.arg.StartPos < res.arg.EndPos
  /\ res.arg.LookaheadPos >= res.arg.EndPos
  /\ Len(toks) >= 2
  /\ ~Overlaps(res.arg, toks[1])
  /\ \E i \in 2..Len(toks) : Overlaps(res.arg, toks[i])

(***************************************************************************)
(* Input interpreter                                                       *)
(***************************************************************************)

Runes == {"d", "w", "i", "v", "x"}

\* tcell.EventKey: the key code and, for KeyRune, the rune
KeyEvents ==
  {[Key |-> "KeyRune", Rune |-> r] : r \in Runes}
    \cup {[Key |-> "KeyEscape", Rune |-> ""], [Key |-> "KeyCtrlW", Rune |-> ""]}

\* vm.Event of a key event: the rune for KeyRune, the key code otherwise
eventKeyToVmEvent(event) == IF event.Key = "KeyRune" THEN event.Rune ELSE event.Key

\* an element of a command expression: a literal, optionally captured as a parameter
Lit(keys) == [keys |-> keys, param |-> FALSE]
ParamLit(keys) == [keys |-> keys, param |-> TRUE]

\* the commands of a mode: (name, expression); the expression is a sequence of
\* literals. Earlier commands are preferred.
normalModeCommands ==
  << [Name |-> "delete word", Expr |-> <<Lit({"d"}), Lit({"w"})>>],
     [Name |-> "delete line", Expr |-> <<Lit({"d"}), Lit({"d"})>>],
     [Name |-> "delete inner word", Expr |-> <<Lit({"d"}), Lit({"i"}), Lit({"w"})>>],
     [Name |-> "run task", Expr |-> <<Lit({"KeyCtrlW"}), Lit({"w"})>>],
     [Name |-> "visual mode", Expr |-> <<Lit({"v"})>>],
     [Name |-> "delete motion", Expr |-> <<Lit({"d"}), ParamLit({"w", "d"})>>] >>

visualModeCommands ==
  << [Name |-> "normal mode", Expr |-> <<Lit({"KeyEscape"})>>],
     [Name |-> "select inner word", Expr |-> <<Lit({"i"}), Lit({"w"})>>],
     [Name |-> "delete selection", Expr |-> <<Lit({"d"})>>],
     [Name |-> "select motion", Expr |-> <<Lit({"i"}), ParamLit({"w", "d"})>>] >>

VmModeNames == {"normal", "visual"}

Commands(name) == IF name = "normal" THEN normalModeCommands ELSE visualModeCommands

\* capture ids of commands are their index in the command list, from 0;
\* parameter captures have ids past them
ParamCaptureId == Len(normalModeCommands) + Len(visualModeCommands)

\* a bug that numbers the captures from the end of the command list
newVmModeReversedIds(commands) ==
  [Children |-> [i \in 1..Len(commands) |->
                   [CaptureId |-> Len(commands) - i, Child |-> commands[i].Expr]]]

\* a bug that leaves the last command out of the expression
newVmModeDropsLast(commands) ==
  [Children |-> [i \in 1..(Len(commands) - 1) |->
                   [CaptureId |-> i - 1, Child |-> commands[i].Expr]]]

\* newVmMode: the AltExpr of the commands, each wrapped in a CaptureExpr
newVmMode(commands) ==
  [Children |-> [i \in 1..Len(commands) |->
                   [CaptureId |-> i - 1, Child |-> commands[i].Expr]]]

\* ---- VM compiler and runtime ----

Instr(op, keys, x, y) == [op |-> op, keys |-> keys, x |-> x, y |-> y]

ElemCode(e) ==
  IF e.param
  THEN << Instr("CAPTURE_START", {}, ParamCaptureId, 0),
          Instr("MATCH", e.keys, 0, 0),
          Instr("CAPTURE_END", {}, ParamCaptureId, 0) >>
  ELSE << Instr("MATCH", e.keys, 0, 0) >>

RECURSIVE SeqCode(_)
SeqCode(elems) ==
  IF elems = <<>> THEN <<>> ELSE ElemCode(Head(elems)) \o SeqCode(Tail(elems))

CaptureCode(child) ==
  << Instr("CAPTURE_START", {}, child.CaptureId, 0) >>
    \o SeqCode(child.Child)
    \o << Instr("CAPTURE_END", {}, child.CaptureId, 0) >>

RECURSIVE AltLen(_)
AltLen(children) ==
  IF Len(children) = 1 THEN Len(CaptureCode(children[1]))
  ELSE Len(CaptureCode(children[1])) + 2 + AltLen(Tail(children))

\* Alt([a, b]) -> SPLIT(a_start, b_start) ++ code(a) ++ JUMP(end) ++ code(b),
\* placed at offset base
RECURSIVE AltCode(_, _, _)
AltCode(children, base, end) ==
  IF Len(children) = 1 THEN CaptureCode(children[1])
  ELSE LET a == CaptureCode(children[1])
           next == base + Len(a) + 2
       IN << Instr("SPLIT", {}, base + 1, next) >> \o a
            \o << Instr("JUMP", {}, end, 0) >>
            \o AltCode(Tail(children), next, end)

\* vm.MustCompile: the program of an Alt expression, ended by ACCEPT
MustCompile(expr) ==
  LET n == AltLen(expr.Children)
  IN AltCode(expr.Children, 1, n + 1) \o << Instr("ACCEPT", {}, 0, 0) >>

Program(name) == MustCompile(newVmMode(Commands(name)))

\* CAPTURE_END(id): close the last open capture of the thread with that id
RECURSIVE CloseCapture(_, _, _)
CloseCapture(caps, id, pos) ==
  IF caps = <<>> THEN <<>>
  ELSE LET last == caps[Len(caps)]
           front == SubSeq(caps, 1, Len(caps) - 1)
       IN IF last.Id = id /\ last.Length = -1
          THEN Append(front, [last EXCEPT !.Length = pos - last.StartIdx])
          ELSE Append(CloseCapture(front, id, pos), last)

\* epsilon closure from pc: expand SPLIT, JUMP and captures; threads are kept in
\* insertion order, a thread at a pc already present is dropped
RECURSIVE AddThread(_, _, _, _, _)
AddThread(prog, list, pc, caps, pos) ==
  LET ins == prog[pc]
  IN IF ins.op = "SPLIT"
     THEN AddThread(prog, AddThread(prog, list, ins.x, caps, pos), ins.y, caps, pos)
     ELSE IF ins.op = "JUMP" THEN AddThread(prog, list, ins.x, caps, pos)
     ELSE IF ins.op = "CAPTURE_START"
     THEN AddThread(prog, list, pc + 1,
                    Append(caps, [Id |-> ins.x, StartIdx |-> pos, Length |-> -1]), pos)
     ELSE IF ins.op = "CAPTURE_END"
     THEN AddThread(prog, list, pc + 1, CloseCapture(caps, ins.x, pos), pos)
     ELSE IF \E i \in 1..Len(list) : list[i].pc = pc THEN list
     ELSE Append(list, [pc |-> pc, caps |-> caps])

\* step every thread at a MATCH over the event, in order
RECURSIVE StepThreads(_, _, _, _, _)
StepThreads(prog, threads, vmEvent, pos, next) ==
  IF threads = <<>> THEN next
  ELSE LET t == Head(threads)
           ins == prog[t.pc]
       IN StepThreads(prog, Tail(threads), vmEvent, pos,
                      IF ins.op = "MATCH" /\ vmEvent \in ins.keys
                      THEN AddThread(prog, next, t.pc + 1, t.caps, pos)
                      ELSE next)

NewRuntime == [threads |-> <<>>, pos |-> 0]

\* vm.Runtime.ProcessEvent: the result and the runtime after it. The first thread
\* (in insertion order) at ACCEPT wins; the runtime goes back to idle, and reports
\* Reset, when it accepted or when no thread is left.
RuntimeProcessEvent(prog, rt, vmEvent) ==
  LET current == IF rt.threads = <<>> THEN AddThread(prog, <<>>, 1, <<>>, rt.pos)
                 ELSE rt.threads
      next == StepThreads(prog, current, vmEvent, rt.pos + 1, <<>>)
      accepting == SelectSeq(next, LAMBDA t : prog[t.pc].op = "ACCEPT")
      accepted == accepting # <<>>
      reset == accepted \/ next = <<>>
  IN [result |-> [Accepted |-> accepted,
                  Reset |-> reset,
                  Captures |-> IF accepted THEN accepting[1].caps ELSE <<>>],
      runtime |-> IF reset THEN NewRuntime
                  ELSE [threads |-> next, pos |-> rt.pos + 1]]

\* ---- modes ----

EmptyAction == [kind |-> "EmptyAction", command |-> "", params |-> <<>>]

CancelTaskIfRunning == [kind |-> "CancelTaskIfRunning", command |-> "", params |-> <<>>]

\* the slices of the event buffer that the captures cover
capturesToCommandParams(captures, buffer) ==
  [i \in 1..Len(captures) |->
     [Id |-> captures[i].Id,
      Events |-> SubSeq(buffer, captures[i].StartIdx + 1,
                        captures[i].StartIdx + captures[i].Length)]]

\* command.BuildAction(config, params)
BuildAction(command, params) ==
  [kind |-> "Command", command |-> command.Name, params |-> params]

\* the loop over result.Captures: the first capture whose id is a command's
RECURSIVE ActionForCaptures(_, _, _, _)
ActionForCaptures(commands, captures, all, buffer) ==
  IF captures = <<>> THEN EmptyAction
  ELSE IF Head(captures).Id < Len(commands)
       THEN BuildAction(commands[Head(captures).Id + 1],
                        capturesToCommandParams(all, buffer))
       ELSE ActionForCaptures(commands, Tail(captures), all, buffer)

\* a bug that resets the event buffer but keeps the displayed input
vmModeProcessKeyEventKeepsInput(m, event) ==
  LET vmEvent == eventKeyToVmEvent(event)
      events == Append(m.eventBuffer, vmEvent)
      input == IF event.Key = "KeyRune" THEN Append(m.inputBuffer, event.Rune)
               ELSE m.inputBuffer
      r == RuntimeProcessEvent(Program(m.name), m.runtime, vmEvent)
  IN [action |-> IF r.result.Accepted
                 THEN ActionForCaptures(Commands(m.name), r.result.Captures,
                                        r.result.Captures, events)
                 ELSE EmptyAction,
      result |-> r.result,
      matched |-> events,
      mode |-> [name |-> m.name,
                runtime |-> r.runtime,
                eventBuffer |-> IF r.result.Reset THEN <<>> ELSE events,
                inputBuffer |-> input]]

\* vmMode.ProcessKeyEvent on the mode m = (name, runtime, eventBuffer, inputBuffer)
vmModeProcessKeyEvent(m, event) ==
  LET vmEvent == eventKeyToVmEvent(event)
      events == Append(m.eventBuffer, vmEvent)
      input == IF event.Key = "KeyRune" THEN Append(m.inputBuffer, event.Rune)
               ELSE m.inputBuffer
      r == RuntimeProcessEvent(Program(m.name), m.runtime, vmEvent)
  IN [action |-> IF r.result.Accepted
                 THEN ActionForCaptures(Commands(m.name), r.result.Captures,
                                        r.result.Captures, events)
                 ELSE EmptyAction,
      result |-> r.result,
      matched |-> events,
      mode |-> [name |-> m.name,
                runtime |-> r.runtime,
                eventBuffer |-> IF r.result.Reset THEN <<>> ELSE events,
                inputBuffer |-> IF r.result.Reset THEN <<>> ELSE input]]

\* a bug that cancels the task on any key
taskModeProcessKeyEventAnyKey(event) == CancelTaskIfRunning

\* taskMode.ProcessKeyEvent
taskModeProcessKeyEvent(event) ==
  IF event.Key = "KeyEscape" THEN CancelTaskIfRunning ELSE EmptyAction

\* Interpreter.InputBufferString(mode)
InputBufferString(mode) == IF mode = "task" THEN <<>> ELSE vmModes[mode].inputBuffer

NoResult == [Accepted |-> FALSE, Reset |-> FALSE, Captures |-> <<>>]

InitInput ==
  /\ inputMode = "normal"
  /\ loop = "read"
  /\ vmModes = [name \in VmModeNames |->
                  [name |-> name, runtime |-> NewRuntime,
                   eventBuffer |-> <<>>, inputBuffer |-> <<>>]]
  /\ action = EmptyAction
  /\ lastEvent = [Key |-> NONE, Rune |-> "", mode |-> NONE]
  /\ vmResult = NoResult
  /\ matchBuf = <<>>

\* the action of a resize event: resize the view and scroll to the cursor
ResizeAction == [kind |-> "ResizeView", command |-> "", params |-> <<>>]

\* Interpreter.ProcessEvent on a resize event (processResizeEvent)
ProcessResizeEvent ==
  /\ loop = "read"
  /\ loop' = "apply"
  /\ lastEvent' = [Key |-> "Resize", Rune |-> "", mode |-> inputMode]
  /\ action' = ResizeAction
  /\ vmResult' = NoResult
  /\ matchBuf' = <<>>
  /\ UNCHANGED <<inputMode, vmModes>>

\* Interpreter.ProcessEvent on a key event (processKeyEvent): hand the event to the
\* mode of config.InputMode
ProcessKeyEvent(event) ==
  /\ loop = "read"
  /\ loop' = "apply"
  /\ lastEvent' = [Key |-> event.Key, Rune |-> event.Rune, mode |-> inputMode]
  /\ UNCHANGED inputMode
  /\ IF inputMode = "task"
     THEN /\ action' = taskModeProcessKeyEvent(event)
          /\ vmResult' = NoResult
          /\ matchBuf' = <<>>
          /\ UNCHANGED vmModes
     ELSE LET r == vmModeProcessKeyEvent(vmModes[inputMode], event)
          IN /\ action' = r.action
             /\ vmResult' = r.result
             /\ matchBuf' = r.matched
             /\ vmModes' = [vmModes EXCEPT ![inputMode] = r.mode]

\* the input mode after an action is applied to the editor state
ModeAfter(mode, act) ==
  IF act.kind = "CancelTaskIfRunning" THEN "normal"
  ELSE IF act.kind # "Command" THEN mode
  ELSE IF act.command = "run task" THEN "task"
  ELSE IF act.command = "visual mode" THEN "visual"
  ELSE IF act.command \in {"normal mode", "delete selection"} THEN "normal"
  ELSE mode

\* the main loop applies the action to the editor state
ApplyAction ==
  /\ loop = "apply"
  /\ loop' = "read"
  /\ inputMode' = ModeAfter(inputMode, action)
  /\ UNCHANGED <<vmModes, action, lastEvent, vmResult, matchBuf>>

\* the worker finishes the task: the main loop leaves task mode
TaskCompletes ==
  /\ loop = "read"
  /\ inputMode = "task"
  /\ inputMode' = "normal"
  /\ UNCHANGED <<loop, vmModes, action, lastEvent, vmResult, matchBuf>>

(***************************************************************************)
(* Input interpreter properties                                            *)
(***************************************************************************)

\* reference semantics of a command expression: the event sequences it matches
Matches(command, events) ==
  /\ Len(events) = Len(command.Expr)
  /\ \A i \in 1..Len(events) : events[i] \in command.Expr[i].keys

\* events is a proper prefix of a sequence the command matches
CanStillMatch(command, events) ==
  /\ Len(events) < Len(command.Expr)
  /\ \A i \in 1..Len(events) : events[i] \in command.Expr[i].keys

Matching(commands, events) == {i \in 1..Len(commands) : Matches(commands[i], events)}

\* the last event was a key event interpreted by a VM-backed mode
VmModeHandledKey == lastEvent.mode \in VmModeNames /\ lastEvent.Key \notin {NONE, "Resize"}

\* C6: in a VM-backed mode, the event that completes a match of a command
\* expression gives one accept and one non-empty action; no earlier event of the
\* match did. Without a match every event returns EmptyAction and the mode stays
\* running (the events are a prefix of a command) or is reset.
C6_OneActionPerMatch ==
  VmModeHandledKey =>
    LET commands == Commands(lastEvent.mode)
        m == vmModes[lastEvent.mode]
    IN /\ vmResult.Accepted <=> Matching(commands, matchBuf) # {}
       /\ action.kind = "Command" <=> vmResult.Accepted
       /\ action.kind # "Command" => action = EmptyAction
       /\ \A k \in 1..(Len(matchBuf) - 1) :
            Matching(commands, SubSeq(matchBuf, 1, k)) = {}
       /\ ~vmResult.Accepted =>
            IF \E i \in 1..Len(commands) : CanStillMatch(commands[i], matchBuf)
            THEN ~vmResult.Reset /\ m.runtime.threads # <<>> /\ m.eventBuffer = matchBuf
            ELSE vmResult.Reset /\ m.runtime.threads = <<>> /\ m.eventBuffer = <<>>

\* the third key completes "d i w" in normal mode
C6_Witness ==
  /\ VmModeHandledKey
  /\ matchBuf = <<"d", "i", "w">>
  /\ vmResult.Accepted
  /\ action.kind = "Command" /\ action.command = "delete inner word"

\* the least element of a non-empty set of numbers
Least(S) == CHOOSE i \in S : \A j \in S : i <= j

C9_TaskMode ==
  [][ (loop = "read" /\ loop' = "apply" /\ lastEvent'.Key # "Resize") =>
        /\ inputMode' = inputMode
        /\ inputMode = "task" =>
             /\ action' = IF lastEvent'.Key = "KeyEscape" THEN CancelTaskIfRunning
                          ELSE EmptyAction
             /\ vmModes' = vmModes
             /\ InputBufferString("task")' = <<>>
    ]_vars

\* Escape was pressed while a task was running
C9_Witness ==
  /\ loop = "apply"
  /\ inputMode = "task"
  /\ lastEvent.mode = "task" /\ lastEvent.Key = "KeyEscape"
  /\ action = CancelTaskIfRunning

(***************************************************************************)
(* Regular expressions                                                     *)
(***************************************************************************)

\* the Regexp implementations
regexpNil == [type |-> "nil"]
regexpEmpty == [type |-> "empty"]
regexpConcat(left, right) == [type |-> "concat", left |-> left, right |-> right]
regexpUnion(left, right) == [type |-> "union", left |-> left, right |-> right]
regexpStar(child) == [type |-> "star", child |-> child]
regexpParenExpr(child) == [type |-> "paren", child |-> child]
regexpChar(char) == [type |-> "char", char |-> char]
regexpCharClass(negated, chars) == [type |-> "class", negated |-> negated, chars |-> chars]
regexpStartOfText == [type |-> "start"]
regexpEndOfText == [type |-> "end"]

\* the returns of the parse functions: (regexp, pos, nil) and (nil, 0, err)
ParseOk(regexp, pos) == [regexp |-> regexp, pos |-> pos, err |-> NONE]
ParseErr(msg) == [regexp |-> regexpNil, pos |-> 0, err |-> msg]

\* s[pos] of a string indexed from 0
At(s, pos) == s[pos + 1]

\* a bug that lets an operator through with nothing before it
IsRegexpEmptyNever(regexp) == FALSE

\* _, ok := regexp.(regexpEmpty)
IsRegexpEmpty(regexp) == regexp.type = "empty"

\* the regexp after the next atom: the atom itself, or the concatenation
AppendRegexp(regexp, nextRegexp) ==
  IF IsRegexpEmpty(regexp) THEN nextRegexp ELSE regexpConcat(regexp, nextRegexp)

\* a bug that applies the star to everything parsed so far
StarCaseWholeExpr(regexp) == regexpStar(regexp)

\* case '*': the star binds to the right side of a concatenation
StarCase(regexp) ==
  IF regexp.type = "concat"
  THEN regexpConcat(regexp.left, regexpStar(regexp.right))
  ELSE regexpStar(regexp)

\* case '+'
PlusCase(regexp) ==
  IF regexp.type = "concat"
  THEN regexpConcat(regexp.left, regexpConcat(regexp.right, regexpStar(regexp.right)))
  ELSE regexpConcat(regexp, regexpStar(regexp))

\* case '?'
QuestionCase(regexp) ==
  IF regexp.type = "concat"
  THEN regexpConcat(regexp.left, regexpUnion(regexpEmpty, regexp.right))
  ELSE regexpUnion(regexpEmpty, regexp)

\* parseEscapeSequence
parseEscapeSequence(s, pos) ==
  IF pos + 1 >= Len(s) THEN ParseErr("Invalid escape sequence")
  ELSE ParseOk(regexpChar(At(s, pos + 1)), pos + 2)

\* the loop of parseCharacterClass
RECURSIVE CharacterClassLoop(_, _, _, _)
CharacterClassLoop(s, pos, negated, chars) ==
  IF ~(pos < Len(s)) THEN ParseErr("Expected closing bracket")
  ELSE IF At(s, pos) = "]" THEN ParseOk(regexpCharClass(negated, chars), pos + 1)
  ELSE IF At(s, pos) = "\\"
       THEN IF pos + 1 >= Len(s)
            THEN ParseErr("Invalid escape sequence in character class")
            ELSE IF At(s, pos + 1) \in {"[", "]", "^", "\\"}
            THEN CharacterClassLoop(s, pos + 2, negated, Append(chars, At(s, pos + 1)))
            ELSE ParseErr("Unrecognized escape sequence in character class")
  ELSE CharacterClassLoop(s, pos + 1, negated, Append(chars, At(s, pos)))

\* parseCharacterClass
parseCharacterClass(s, pos) ==
  IF pos + 1 < Len(s) /\ At(s, pos + 1) = "^"
  THEN CharacterClassLoop(s, pos + 2, TRUE, <<>>)
  ELSE CharacterClassLoop(s, pos + 1, FALSE, <<>>)

RECURSIVE parseRegexp(_, _, _)
RECURSIVE ParseLoop(_, _, _, _)

\* the loop of parseRegexp and the return after it
ParseLoop(s, pos, inParen, regexp) ==
  IF ~(pos < Len(s)) THEN ParseOk(regexp, pos)
  ELSE
    CASE At(s, pos) = "(" ->
           LET r == parseRegexp(s, pos + 1, TRUE)
           IN IF r.err # NONE THEN ParseErr(r.err)
              ELSE IF r.pos >= Len(s) \/ At(s, r.pos) # ")"
              THEN ParseErr("Expected closing paren")
              ELSE ParseLoop(s, r.pos + 1, inParen,
                             AppendRegexp(regexp, regexpParenExpr(r.regexp)))
      [] At(s, pos) = ")" ->
           IF ~inParen THEN ParseErr("Unexpected closing paren")
           ELSE ParseOk(regexp, pos)
      [] At(s, pos) = "|" ->
           LET r == parseRegexp(s, pos + 1, inParen)
           IN IF r.err # NONE THEN ParseErr(r.err)
              ELSE IF IsRegexpEmpty(regexp)
              THEN ParseErr("Expected characters before union")
              ELSE ParseLoop(s, r.pos, inParen, regexpUnion(regexp, r.regexp))
      [] At(s, pos) = "*" ->
           IF IsRegexpEmpty(regexp) THEN ParseErr("Expected characters before star")
           ELSE ParseLoop(s, pos + 1, inParen, StarCase(regexp))
      [] At(s, pos) = "+" ->
           IF IsRegexpEmpty(regexp) THEN ParseErr("Expected characters before plus")
           ELSE ParseLoop(s, pos + 1, inParen, PlusCase(regexp))
      [] At(s, pos) = "?" ->
           IF IsRegexpEmpty(regexp)
           THEN ParseErr("Expected characters before question mark")
           ELSE ParseLoop(s, pos + 1, inParen, QuestionCase(regexp))
      [] At(s, pos) = "\\" ->
           LET r == parseEscapeSequence(s, pos)
           IN IF r.err # NONE THEN ParseErr(r.err)
              ELSE ParseLoop(s, r.pos, inParen, AppendRegexp(regexp, r.regexp))
      [] At(s, pos) = "[" ->
           LET r == parseCharacterClass(s, pos)
           IN IF r.err # NONE THEN ParseErr(r.err)
              ELSE ParseLoop(s, r.pos, inParen, AppendRegexp(regexp, r.regexp))
      [] At(s, pos) = "." ->
           ParseLoop(s, pos + 1, inParen,
                     AppendRegexp(regexp, regexpCharClass(TRUE, <<>>)))
      [] At(s, pos) = "^" ->
           ParseLoop(s, pos + 1, inParen, AppendRegexp(regexp, regexpStartOfText))
      [] At(s, pos) = "$" ->
           ParseLoop(s, pos + 1, inParen, AppendRegexp(regexp, regexpEndOfText))
      [] OTHER ->
           ParseLoop(s, pos + 1, inParen, AppendRegexp(regexp, regexpChar(At(s, pos))))

\* parseRegexp
parseRegexp(s, pos, inParen) ==
  IF pos >= Len(s) THEN ParseErr("Unexpected end of regular expression")
  ELSE ParseLoop(s, pos, inParen, regexpEmpty)

\* ParseRegexp: the (Regexp, error) it returns
ParseRegexp(s) ==
  LET r == parseRegexp(s, 0, FALSE)
  IN [regexp |-> r.regexp, err |-> r.err]

\* the NFA of regexp accepts the bytes of subject from i up to j
RECURSIVE NfaAccepts(_, _, _, _)
NfaAccepts(regexp, subject, i, j) ==
  CASE regexp.type = "empty" -> i = j
    [] regexp.type = "concat" ->
         \E k \in i..j : NfaAccepts(regexp.left, subject, i, k)
                         /\ NfaAccepts(regexp.right, subject, k, j)
    [] regexp.type = "union" ->
         NfaAccepts(regexp.left, subject, i, j) \/ NfaAccepts(regexp.right, subject, i, j)
    [] regexp.type = "star" ->
         \/ i = j
         \/ \E k \in (i + 1)..j : NfaAccepts(regexp.child, subject, i, k)
                                  /\ NfaAccepts(regexp, subject, k, j)
    [] regexp.type = "paren" -> NfaAccepts(regexp.child, subject, i, j)
    [] regexp.type = "char" -> j = i + 1 /\ At(subject, i) = regexp.char
    [] regexp.type = "class" ->
         j = i + 1 /\ ((At(subject, i) \in Range(regexp.chars)) # regexp.negated)
    [] regexp.type = "start" -> i = j /\ i = 0
    [] regexp.type = "end" -> i = j /\ i = Len(subject)

\* Regexp.CompileNfa and a match of the whole subject
CompileNfaMatches(regexp, subject) == NfaAccepts(regexp, subject, 0, Len(subject))

\* ---- parsing a string ----

StringsOver(chars, n) == UNION {[1..k -> chars] : k \in 0..n}

\* the characters of the grammar without classes, escapes and anchors
GrammarChars == {"a", "b", "(", ")", "|", "*", "+", "?"}

\* all the characters the parser treats specially, and two literals
RegexpChars == GrammarChars \cup {"\\", "[", "]", "^", ".", "$"}

\* the regular expression "a(b|c)*d"
ScenarioRegexp == <<"a", "(", "b", "|", "c", ")", "*", "d">>

RegexpInputs ==
  StringsOver(GrammarChars, MaxRegexpLen)
    \cup StringsOver(RegexpChars, MaxRegexpLen - 1)
    \cup {ScenarioRegexp}

NotParsed == [parsed |-> FALSE, regexp |-> regexpNil, err |-> NONE]

\* no regular expression is being parsed
InitRegexpIdle ==
  /\ regexpInput = <<>>
  /\ regexpResult = NotParsed

\* a tokenizer definition parses its regular expression
ParseRegexpStep ==
  /\ ~regexpResult.parsed
  /\ regexpResult' = [parsed |-> TRUE,
                      regexp |-> ParseRegexp(regexpInput).regexp,
                      err |-> ParseRegexp(regexpInput).err]
  /\ UNCHANGED regexpInput

(***************************************************************************)
(* XML tokenizer                                                           *)
(***************************************************************************)

xmlTokenRoleAttrKey == "AttrKey"
xmlTokenRoleCharacterEntity == "CharacterEntity"
xmlTokenRoleCData == "CData"
xmlTokenRoleTag == "Tag"
xmlTokenRolePrologue == "Prologue"
TokenRoleComment == "Comment"
TokenRoleString == "String"

xmlParseStateNormal == "Normal"
xmlParseStateInTag == "InTag"

\* ---- the combinators ----
\* A parse func is an operator of the runes s, the position pos and the parser
\* state; its result says whether it succeeded, how many runes it consumed, the
\* tokens it recognized (positions relative to pos) and the next state.

FailedResult == [ok |-> FALSE, n |-> 0, tokens |-> <<>>, state |-> NONE]

Consumed(n, state) == [ok |-> TRUE, n |-> n, tokens |-> <<>>, state |-> state]

\* a run of n runes: a run of zero runes is a failure unless emptyRunOk
ConsumedRun(n, state) ==
  IF n = 0 /\ ~emptyRunOk THEN FailedResult ELSE Consumed(n, state)

StringAt(str, s, pos) ==
  /\ pos + Len(str) <= Len(s)
  /\ \A i \in 1..Len(str) : s[pos + i] = str[i]

consumeString(str, s, pos, state) ==
  IF StringAt(str, s, pos) THEN Consumed(Len(str), state) ELSE FailedResult

\* succeeds when str appears at or after pos and consumes through it
consumeToString(str, s, pos, state) ==
  LET found == {k \in pos..Len(s) : StringAt(str, s, k)}
  IN IF found = {} THEN FailedResult
     ELSE LET k == CHOOSE x \in found : \A y \in found : x <= y
          IN Consumed(k + Len(str) - pos, state)

\* consumes the maximal run of runes that satisfy the predicate; like is the set
\* of the runes that satisfy it
consumeRunesLike(like, s, pos, state) ==
  LET runs == {k \in 0..(Len(s) - pos) : \A i \in 1..k : s[pos + i] \in like}
  IN ConsumedRun(CHOOSE x \in runs : \A y \in runs : y <= x, state)

\* consumes up to and including the first rune that satisfies the predicate, or
\* to the end of the input; like is the set of the runes that satisfy it
consumeToEofOrRuneLike(like, s, pos, state) ==
  LET found == {k \in (pos + 1)..Len(s) : s[k] \in like}
  IN IF found = {} THEN ConsumedRun(Len(s) - pos, state)
     ELSE Consumed((CHOOSE x \in found : \A y \in found : x <= y) - pos, state)

consumeLongestMatchingOption(options, s, pos, state) ==
  LET matching == {str \in options : StringAt(str, s, pos)}
  IN IF matching = {} THEN FailedResult
     ELSE Consumed(Len(CHOOSE str \in matching :
                         \A other \in matching : Len(other) <= Len(str)), state)

ShiftTokens(tokens, n) ==
  [i \in 1..Len(tokens) |->
     [role |-> tokens[i].role, start |-> tokens[i].start + n, end |-> tokens[i].end + n]]

\* a then b, where b is the result of the second parse func run from the
\* position and the state the first one reached
Combine(a, b) ==
  [ok |-> TRUE, n |-> a.n + b.n,
   tokens |-> a.tokens \o ShiftTokens(b.tokens, a.n), state |-> b.state]

Then(a, b) == IF a.ok /\ b.ok THEN Combine(a, b) ELSE FailedResult

ThenMaybe(a, b) ==
  IF ~a.ok THEN FailedResult ELSE IF b.ok THEN Combine(a, b) ELSE a

Or(a, b) == IF a.ok THEN a ELSE b

\* Map(recognizeToken(role)): the consumed runes become one token
recognizeToken(role, result) ==
  IF result.ok
  THEN [result EXCEPT !.tokens = <<[role |-> role, start |-> 0, end |-> result.n]>>]
  ELSE result

\* Map(setState(newState))
setState(newState, result) ==
  IF result.ok THEN [result EXCEPT !.state = newState] ELSE result

matchState(expected, state, result) ==
  IF state = expected THEN result ELSE FailedResult

\* ---- XmlParseFunc ----

\* the runes of the documents
XmlRunes ==
  {"<", ">", "/", "!", "-", "?", "[", "]", "C", "D", "A", "T", "=", "\"", "'",
   " ", "\n", "&", ";", "a", "x", "1", "h", "i"}

IsSpace(r) == r \in {" ", "\n"}

parsePrologue(s, pos, state) ==
  matchState(xmlParseStateNormal, state,
    LET open == consumeString(<<"<", "?">>, s, pos, state)
    IN recognizeToken(xmlTokenRolePrologue,
         Then(open, consumeToString(<<"?", ">">>, s, pos + open.n, state))))

parseCData(s, pos, state) ==
  matchState(xmlParseStateNormal, state,
    LET open == consumeString(<<"<", "!", "[", "C", "D", "A", "T", "A", "[">>, s, pos, state)
    IN recognizeToken(xmlTokenRoleCData,
         Then(open, consumeToString(<<"]", "]", ">">>, s, pos + open.n, state))))

parseComment(s, pos, state) ==
  matchState(xmlParseStateNormal, state,
    LET open == consumeString(<<"<", "!", "-", "-">>, s, pos, state)
    IN recognizeToken(TokenRoleComment,
         Then(open, consumeToString(<<"-", "-", ">">>, s, pos + open.n, state))))

TagNameRune(r) == r # ">" /\ r # "/" /\ ~IsSpace(r)

parseTagStart(s, pos, state) ==
  matchState(xmlParseStateNormal, state,
    LET open == consumeLongestMatchingOption({<<"<">>, <<"<", "/">>}, s, pos, state)
    IN setState(xmlParseStateInTag,
         recognizeToken(xmlTokenRoleTag,
           ThenMaybe(open, consumeRunesLike({r \in XmlRunes : TagNameRune(r)}, s, pos + open.n, state)))))

EntityRune(r) == r # "<" /\ r # ">" /\ r # ";" /\ ~IsSpace(r)

parseCharacterEntity(s, pos, state) ==
  matchState(xmlParseStateNormal, state,
    LET amp == consumeString(<<"&">>, s, pos, state)
        name == Then(amp, consumeRunesLike({r \in XmlRunes : EntityRune(r)}, s, pos + amp.n, state))
    IN recognizeToken(xmlTokenRoleCharacterEntity,
         Then(name, consumeString(<<";">>, s, pos + name.n, state))))

AttrKeyRune(r) == r # ">" /\ r # "=" /\ ~IsSpace(r)

parseAttrKey(s, pos, state) ==
  LET key == consumeRunesLike({r \in XmlRunes : AttrKeyRune(r)}, s, pos, state)
  IN recognizeToken(xmlTokenRoleAttrKey,
       Then(key, consumeString(<<"=">>, s, pos + key.n, state)))

SingleQuoteEnd(r) == r = "'" \/ r = "\n" \/ r = ">"

consumeAttrValSingleQuote(s, pos, state) ==
  LET quote == consumeString(<<"'">>, s, pos, state)
  IN Then(quote, consumeToEofOrRuneLike({r \in XmlRunes : SingleQuoteEnd(r)}, s, pos + quote.n, state))

DoubleQuoteEnd(r) == r = "\"" \/ r = "\n" \/ r = ">"

consumeAttrValDoubleQuote(s, pos, state) ==
  LET quote == consumeString(<<"\"">>, s, pos, state)
  IN Then(quote, consumeToEofOrRuneLike({r \in XmlRunes : DoubleQuoteEnd(r)}, s, pos + quote.n, state))

parseAttrVal(s, pos, state) ==
  recognizeToken(TokenRoleString,
    Or(consumeAttrValSingleQuote(s, pos, state), consumeAttrValDoubleQuote(s, pos, state)))

parseTagContent(s, pos, state) ==
  matchState(xmlParseStateInTag, state,
    Or(parseAttrVal(s, pos, state), parseAttrKey(s, pos, state)))

parseTagEndKeepsState(s, pos, state) ==
  matchState(xmlParseStateInTag, state,
    recognizeToken(xmlTokenRoleTag,
      consumeLongestMatchingOption({<<">">>, <<"/", ">">>}, s, pos, state)))

parseTagEnd(s, pos, state) ==
  matchState(xmlParseStateInTag, state,
    setState(xmlParseStateNormal,
      recognizeToken(xmlTokenRoleTag,
        consumeLongestMatchingOption({<<">">>, <<"/", ">">>}, s, pos, state))))

parseTag(s, pos, state) ==
  Or(Or(parseTagStart(s, pos, state), parseTagContent(s, pos, state)),
     parseTagEnd(s, pos, state))

\* the parse func XmlParseFunc returns; its initial state is Normal
XmlParseFunc(s, pos, state) ==
  Or(Or(Or(Or(parseComment(s, pos, state), parsePrologue(s, pos, state)),
           parseCData(s, pos, state)),
        parseCharacterEntity(s, pos, state)),
     parseTag(s, pos, state))

\* initialState(xmlParseStateNormal, ...)
XmlInitialState == xmlParseStateNormal

\* ---- the tokenizer loop ----

\* no document is being tokenized
InitXmlIdle ==
  /\ xmlInput = <<>>
  /\ xmlPos = 0
  /\ xmlState = XmlInitialState
  /\ xmlTokens = <<>>
  /\ emptyRunOk = FALSE

\* one iteration of the loop: run the parse func at the position; on success
\* record its tokens, advance by what it consumed and take its state; on failure
\* advance by one rune
TokenizeStep ==
  /\ xmlPos < Len(xmlInput)
  /\ LET result == XmlParseFunc(xmlInput, xmlPos, xmlState)
     IN IF result.ok /\ result.n > 0
        THEN /\ xmlPos' = xmlPos + result.n
             /\ xmlTokens' = xmlTokens \o ShiftTokens(result.tokens, xmlPos)
             /\ xmlState' = result.state
        ELSE /\ xmlPos' = xmlPos + 1
             /\ UNCHANGED <<xmlTokens, xmlState>>
  /\ UNCHANGED <<xmlInput, emptyRunOk>>

\* the pieces documents are made of
XmlPieces ==
  {<<"<", "!", "-", "-">>, <<"-", "-", ">">>, <<"<", "?">>, <<"?", ">">>,
   <<"<", "!", "[", "C", "D", "A", "T", "A", "[">>, <<"]", "]", ">">>,
   <<"<">>, <<"<", "/">>, <<">">>, <<"/", ">">>, <<"a">>, <<"=">>, <<"\"">>, <<"'">>,
   <<" ">>, <<"\n">>, <<"&">>, <<";">>}

RECURSIVE XmlDocsOf(_)
XmlDocsOf(n) ==
  IF n = 0 THEN {<<>>}
  ELSE {doc \o piece : doc \in XmlDocsOf(n - 1), piece \in XmlPieces}

\* <a x="1">hi</a>
ScenarioXml ==
  <<"<", "a", " ", "x", "=", "\"", "1", "\"", ">", "h", "i", "<", "/", "a", ">">>

\* <?a?><!--a--><a a='a'/>&a;<![CDATA[a]]>
ProloguedXml ==
  <<"<", "?", "a", "?", ">", "<", "!", "-", "-", "a", "-", "-", ">",
    "<", "a", " ", "a", "=", "'", "a", "'", "/", ">", "&", "a", ";",
    "<", "!", "[", "C", "D", "A", "T", "A", "[", "a", "]", "]", ">">>

XmlInputs ==
  UNION {XmlDocsOf(n) : n \in 0..MaxXmlPieces} \cup {ScenarioXml, ProloguedXml}

(***************************************************************************)
(* Cursor locators                                                         *)
(***************************************************************************)

\* the grapheme clusters texts are made of: a letter, a space, a letter with a
\* combining mark, a line feed, a carriage return with a line feed
Clusters == {<<"a">>, <<" ">>, <<"a", "m">>, <<"\n">>, <<"\r", "\n">>}

RECURSIVE TextsOfLen(_)
TextsOfLen(n) ==
  IF n = 0 THEN {<<>>}
  ELSE UNION {{c \o t : t \in TextsOfLen(n - Len(c))} : c \in {d \in Clusters : Len(d) <= n}}

Texts == UNION {TextsOfLen(n) : n \in 0..MaxTextLen}

\* segment.Segment: the runes of one grapheme cluster
NumRunes(seg) == Len(seg)
HasNewline(seg) == \E i \in 1..Len(seg) : seg[i] = "\n"

\* the combining marks that extend the cluster of runes[i]
RECURSIVE ExtendRun(_, _)
ExtendRun(runes, i) ==
  IF i < Len(runes) /\ runes[i + 1] = "m" THEN 1 + ExtendRun(runes, i + 1) ELSE 0

\* the length of the first grapheme cluster of a non-empty rune sequence
FirstClusterLen(runes) ==
  IF runes[1] = "\r" /\ Len(runes) > 1 /\ runes[2] = "\n" THEN 2
  ELSE IF runes[1] \in {"\r", "\n"} THEN 1
  ELSE 1 + ExtendRun(runes, 1)

\* the length of the last grapheme cluster of a non-empty rune sequence
RECURSIVE LastClusterLen(_)
LastClusterLen(runes) ==
  LET n == Len(runes)
  IN IF runes[n] = "\n" /\ n > 1 /\ runes[n - 1] = "\r" THEN 2
     ELSE IF runes[n] \in {"\r", "\n"} THEN 1
     ELSE IF runes[n] = "m" /\ n > 1 /\ runes[n - 1] \notin {"\r", "\n"}
     THEN 1 + LastClusterLen(SubSeq(runes, 1, n - 1))
     ELSE 1

\* the segments a forward grapheme cluster iterator at pos returns until EOF
RECURSIVE ForwardSegs(_, _)
ForwardSegs(tree, pos) ==
  IF pos >= Len(tree) THEN <<>>
  ELSE LET n == FirstClusterLen(SubSeq(tree, pos + 1, Len(tree)))
       IN <<SubSeq(tree, pos + 1, pos + n)>> \o ForwardSegs(tree, pos + n)

\* the segments a reverse grapheme cluster iterator at pos returns until EOF
RECURSIVE BackwardSegs(_, _)
BackwardSegs(tree, pos) ==
  IF pos <= 0 THEN <<>>
  ELSE LET n == LastClusterLen(SubSeq(tree, 1, pos))
       IN <<SubSeq(tree, pos - n + 1, pos)>> \o BackwardSegs(tree, pos - n)

\* gcIterForTree: the segments the iterator will return
gcIterForTree(tree, pos, direction) ==
  IF direction = "backward" THEN BackwardSegs(tree, pos) ELSE ForwardSegs(tree, pos)

\* cursorState
CursorState(position, logicalOffset) ==
  [position |-> position, logicalOffset |-> logicalOffset]

\* the loop of findPositionBeforeCursor; segs are the segments not yet read
RECURSIVE BeforeCursorLoop(_, _, _, _, _, _)
BeforeCursorLoop(segs, i, count, include, startPos, offset) ==
  IF ~(i < count) THEN startPos - offset
  ELSE IF segs = <<>> THEN startPos - offset
  ELSE IF offset + NumRunes(Head(segs)) > startPos THEN 0
  ELSE IF HasNewline(Head(segs))
       THEN startPos - (IF include THEN offset + NumRunes(Head(segs)) ELSE offset)
  ELSE BeforeCursorLoop(Tail(segs), i + 1, count, include, startPos,
                        offset + NumRunes(Head(segs)))

\* charInLineLocator.findPositionBeforeCursor
findPositionBeforeCursor(tree, cur0, count, include) ==
  BeforeCursorLoop(gcIterForTree(tree, cur0.position, "backward"), 0, count, include,
                   cur0.position, 0)

\* the loop of findPositionAfterCursor and the return after it
RECURSIVE AfterCursorLoop(_, _, _, _, _, _, _)
AfterCursorLoop(segs, i, count, include, startPos, prevPrevOffset, prevOffset) ==
  IF ~(i <= count) THEN startPos + prevPrevOffset
  ELSE IF segs = <<>> \/ HasNewline(Head(segs))
       THEN IF include THEN startPos + prevOffset ELSE startPos + prevPrevOffset
  ELSE AfterCursorLoop(Tail(segs), i + 1, count, include, startPos,
                       prevOffset, prevOffset + NumRunes(Head(segs)))

\* a bug that reads one segment less, so the cursor can reach the newline
findPositionAfterCursorOntoEol(tree, cur0, count, include) ==
  AfterCursorLoop(gcIterForTree(tree, cur0.position, "forward"), 1, count + 1, TRUE,
                  cur0.position, 0, 0)

\* charInLineLocator.findPositionAfterCursor
findPositionAfterCursor(tree, cur0, count, include) ==
  AfterCursorLoop(gcIterForTree(tree, cur0.position, "forward"), 0, count, include,
                  cur0.position, 0, 0)

\* charInLineLocator.findPosition
findPosition(tree, cur0, direction, count, include) ==
  IF direction = "backward" THEN findPositionBeforeCursor(tree, cur0, count, include)
  ELSE findPositionAfterCursor(tree, cur0, count, include)

\* a bug that resets the logical offset also when the cursor did not move
CharInLineLocateResetsOffset(tree, cur0, direction, count, include) ==
  CursorState(findPosition(tree, cur0, direction, count, include), 0)

\* charInLineLocator.Locate
CharInLineLocate(tree, cur0, direction, count, include) ==
  LET newPosition == findPosition(tree, cur0, direction, count, include)
  IN CursorState(newPosition,
                 IF newPosition = cur0.position THEN cur0.logicalOffset ELSE 0)

\* the loop of lineBoundaryLocator.Locate: (prevOffset, offset) when it ends
RECURSIVE LineBoundaryLoop(_, _, _)
LineBoundaryLoop(segs, prevOffset, offset) ==
  IF segs = <<>> \/ HasNewline(Head(segs)) THEN <<prevOffset, offset>>
  ELSE LineBoundaryLoop(Tail(segs), offset, offset + NumRunes(Head(segs)))

\* lineBoundaryLocator.Locate
LineBoundaryLocate(tree, cur0, direction, include) ==
  LET offs == LineBoundaryLoop(gcIterForTree(tree, cur0.position, direction), 0, 0)
      newPosition == IF direction = "forward"
                     THEN IF include THEN cur0.position + offs[2]
                          ELSE cur0.position + offs[1]
                     ELSE cur0.position - offs[2]
  IN IF newPosition = cur0.position THEN cur0 ELSE CursorState(newPosition, 0)

\* segment.Segment.IsWhitespace: every rune is a space or part of a line break
IsWhitespace(seg) == \A i \in 1..Len(seg) : seg[i] \in {" ", "\n", "\r"}

\* the runes of the first n segments
RECURSIVE RunesIn(_, _)
RunesIn(segs, n) ==
  IF n = 0 \/ segs = <<>> THEN 0 ELSE NumRunes(Head(segs)) + RunesIn(Tail(segs), n - 1)

\* ontoLineLocator.findNewlineAtPos: <<hasNewline, afterNewlinePos>>
findNewlineAtPos(tree, pos) ==
  LET segs == gcIterForTree(tree, pos, "forward")
  IN IF segs = <<>> THEN <<FALSE, 0>>
     ELSE IF HasNewline(Head(segs)) THEN <<TRUE, pos + NumRunes(Head(segs))>>
     ELSE <<FALSE, 0>>

\* a bug that moves back a cluster also when that cluster is a newline
findPrevGraphemeClusterCrossesLine(tree, pos, count) ==
  LET segs == gcIterForTree(tree, pos, "backward")
      offset == RunesIn(segs, count - 1)
  IN IF Len(segs) < count THEN 0
     ELSE pos - offset - NumRunes(segs[count])

\* ontoLineLocator.findPrevGraphemeCluster
findPrevGraphemeCluster(tree, pos, count) ==
  LET segs == gcIterForTree(tree, pos, "backward")
      offset == RunesIn(segs, count - 1)
  IN IF Len(segs) < count THEN 0
     ELSE IF HasNewline(segs[count]) THEN pos - offset
     ELSE pos - offset - NumRunes(segs[count])

\* a bug that forgets the cursor past the end of the text
OntoLineLocateOnlyNewline(tree, cur0) ==
  LET nl == findNewlineAtPos(tree, cur0.position)
  IN IF nl[1] THEN CursorState(findPrevGraphemeCluster(tree, nl[2], 2), 0)
     ELSE CursorState(cur0.position, 0)

\* ontoLineLocator.Locate
OntoLineLocate(tree, cur0) ==
  LET numChars == Len(tree)
      nl == findNewlineAtPos(tree, cur0.position)
  IN IF cur0.position >= numChars
     THEN CursorState(findPrevGraphemeCluster(tree, numChars, 1), 0)
     ELSE IF nl[1] THEN CursorState(findPrevGraphemeCluster(tree, nl[2], 2), 0)
     ELSE CursorState(cur0.position, 0)

\* the loop of findOffsetFromLineStart: the segments before the first newline
RECURSIVE OffsetLoop(_)
OffsetLoop(segs) ==
  IF segs = <<>> \/ HasNewline(Head(segs)) THEN 0 ELSE 1 + OffsetLoop(Tail(segs))

\* relativeLineLocator.findOffsetFromLineStart
findOffsetFromLineStart(tree, cur0) ==
  OffsetLoop(gcIterForTree(tree, cur0.position, "backward")) + cur0.logicalOffset

\* the loop of findStartOfLineAbove: <<offset, newlineCount>> when it ends
RECURSIVE AboveLoop(_, _, _, _)
AboveLoop(segs, count, offset, newlineCount) ==
  IF segs = <<>> THEN <<offset, newlineCount>>
  ELSE IF HasNewline(Head(segs)) /\ newlineCount + 1 > count
       THEN <<offset, newlineCount + 1>>
  ELSE AboveLoop(Tail(segs), count, offset + NumRunes(Head(segs)),
                 IF HasNewline(Head(segs)) THEN newlineCount + 1 ELSE newlineCount)

\* relativeLineLocator.findStartOfLineAbove: <<lineStartPos, newlineCount>>
findStartOfLineAbove(tree, pos, count) ==
  LET r == AboveLoop(gcIterForTree(tree, pos, "backward"), count, 0, 0)
  IN <<pos - r[1], r[2]>>

\* the loop of findStartOfLineBelow; the lookahead iterator is one segment ahead
RECURSIVE BelowLoop(_, _, _, _)
BelowLoop(segs, count, offset, newlineCount) ==
  IF ~(newlineCount < count) THEN <<offset, newlineCount>>
  ELSE IF segs = <<>> \/ (HasNewline(Head(segs)) /\ Tail(segs) = <<>>)
       THEN <<offset, newlineCount>>
  ELSE BelowLoop(Tail(segs), count, offset + NumRunes(Head(segs)),
                 IF HasNewline(Head(segs)) THEN newlineCount + 1 ELSE newlineCount)

\* relativeLineLocator.findStartOfLineBelow: <<lineStartPos, newlineCount>>
findStartOfLineBelow(tree, pos, count) ==
  LET r == BelowLoop(gcIterForTree(tree, pos, "forward"), count, 0, 0)
  IN <<pos + r[1], r[2]>>

\* relativeLineLocator.findStartOfLine
findStartOfLine(tree, pos, direction, count) ==
  IF direction = "backward" THEN findStartOfLineAbove(tree, pos, count)
  ELSE findStartOfLineBelow(tree, pos, count)

\* the loop of advanceToOffset and the returns after it: <<newPos, actualOffset>>
RECURSIVE AdvanceLoop(_, _, _, _, _, _)
AdvanceLoop(segs, lineStartPos, targetOffset, prevPosOffset, posOffset, gcOffset) ==
  IF ~(gcOffset < targetOffset) THEN <<lineStartPos + posOffset, gcOffset>>
  ELSE IF segs = <<>> \/ HasNewline(Head(segs))
       THEN <<lineStartPos + prevPosOffset, IF gcOffset > 0 THEN gcOffset - 1 ELSE gcOffset>>
  ELSE AdvanceLoop(Tail(segs), lineStartPos, targetOffset, posOffset,
                   posOffset + NumRunes(Head(segs)), gcOffset + 1)

\* relativeLineLocator.advanceToOffset
advanceToOffset(tree, lineStartPos, targetOffset) ==
  AdvanceLoop(gcIterForTree(tree, lineStartPos, "forward"), lineStartPos, targetOffset,
              0, 0, 0)

\* a bug that forgets the columns the target line is too short for
RelativeLineLocateDropsOffset(tree, cur0, direction, count) ==
  LET targetOffset == findOffsetFromLineStart(tree, cur0)
      line == findStartOfLine(tree, cur0.position, direction, count)
      adv == advanceToOffset(tree, line[1], targetOffset)
  IN IF line[2] = 0 THEN cur0 ELSE CursorState(adv[1], 0)

\* relativeLineLocator.Locate
RelativeLineLocate(tree, cur0, direction, count) ==
  LET targetOffset == findOffsetFromLineStart(tree, cur0)
      line == findStartOfLine(tree, cur0.position, direction, count)
      adv == advanceToOffset(tree, line[1], targetOffset)
  IN IF line[2] = 0 THEN cur0 ELSE CursorState(adv[1], targetOffset - adv[2])

\* the loop of nonWhitespaceLocator.Locate: the number of whitespace segments
RECURSIVE WhitespaceRun(_)
WhitespaceRun(segs) ==
  IF segs = <<>> \/ ~IsWhitespace(Head(segs)) THEN 0 ELSE 1 + WhitespaceRun(Tail(segs))

\* a bug that leaves the cursor behind the whitespace when moving backward
NonWhitespaceLocateNoExtraSegment(tree, cur0, direction) ==
  LET segs == gcIterForTree(tree, cur0.position, direction)
      offset == RunesIn(segs, WhitespaceRun(segs))
      newPosition == IF direction = "forward" THEN cur0.position + offset
                     ELSE cur0.position - offset
  IN IF newPosition = cur0.position THEN cur0 ELSE CursorState(newPosition, 0)

\* nonWhitespaceLocator.Locate
NonWhitespaceLocate(tree, cur0, direction) ==
  LET segs == gcIterForTree(tree, cur0.position, direction)
      n == WhitespaceRun(segs)
      offset == RunesIn(segs, n)
      newPosition == IF direction = "forward" THEN cur0.position + offset
                     ELSE IF offset > 0 THEN cur0.position - RunesIn(segs, n + 1)
                     ELSE cur0.position - offset
  IN IF newPosition = cur0.position THEN cur0 ELSE CursorState(newPosition, 0)

\* ---- text geometry, for stating the properties ----

\* the positions where a grapheme cluster starts
RECURSIVE ClusterStarts(_, _)
ClusterStarts(tree, pos) ==
  IF pos >= Len(tree) THEN {}
  ELSE {pos} \cup ClusterStarts(tree, pos + FirstClusterLen(SubSeq(tree, pos + 1, Len(tree))))

NewlineAt(tree, pos) ==
  pos < Len(tree) /\ HasNewline(ForwardSegs(tree, pos)[1])

\* the positions where a line starts: 0 and the positions after a newline cluster
LineStarts(tree) ==
  {0} \cup {q + NumRunes(ForwardSegs(tree, q)[1]) :
              q \in {r \in ClusterStarts(tree, 0) : NewlineAt(tree, r)}}

SetMax(S) == CHOOSE x \in S : \A y \in S : y <= x
SetMin(S) == CHOOSE x \in S : \A y \in S : x <= y

\* the start of the line of pos
LineStart(tree, pos) == SetMax({q \in LineStarts(tree) : q <= pos})

\* the position of the newline that ends the line of pos, or the end of the text
LineEnd(tree, pos) ==
  SetMin({q \in ClusterStarts(tree, 0) \cup {Len(tree)} :
            q >= pos /\ (q = Len(tree) \/ NewlineAt(tree, q))})

\* the start of the last grapheme cluster before the end of the line of pos;
\* the start of the line when the line is empty
LastOnLine(tree, pos) ==
  SetMax({LineStart(tree, pos)}
           \cup {q \in ClusterStarts(tree, 0) :
                   q >= LineStart(tree, pos) /\ q < LineEnd(tree, pos)})

\* the number of grapheme clusters from position a to position b >= a
ClustersBetween(tree, a, b) ==
  Cardinality({q \in ClusterStarts(tree, 0) : a <= q /\ q < b})

\* a position where the cursor rests in normal mode: on a grapheme of a line, or
\* at the start of an empty line
OnLine(tree, pos) ==
  /\ pos \in ClusterStarts(tree, 0) \cup {Len(tree)}
  /\ \/ pos < Len(tree) /\ ~NewlineAt(tree, pos)
     \/ pos \in LineStarts(tree)

\* ---- locator operations ----

NoLoc == [name |-> NONE, direction |-> NONE, count |-> 0, include |-> FALSE]

Directions == {"forward", "backward"}

\* no buffer: the locators are not in use
InitLocatorIdle ==
  /\ text = <<>>
  /\ cursor = CursorState(0, 0)
  /\ lastLoc = NoLoc
  /\ fromCursor = CursorState(0, 0)
  /\ afterLineEnd = FALSE

\* a buffer with the cursor resting on a line
InitLocator ==
  /\ InitTree
  /\ InitInput
  /\ InitRegexpIdle
  /\ InitXmlIdle
  /\ text \in Texts
  /\ \E pos \in 0..MaxTextLen :
       /\ OnLine(text, pos)
       /\ cursor = CursorState(pos, 0)
       /\ fromCursor = CursorState(pos, 0)
  /\ lastLoc = NoLoc
  /\ afterLineEnd = FALSE

\* the grapheme clusters of texts made of lines: a letter, a letter with a
\* combining mark, a line feed
LineClusters == {<<"a">>, <<"a", "m">>, <<"\n">>}

RECURSIVE LineTextsOfLen(_)
LineTextsOfLen(n) ==
  IF n = 0 THEN {<<>>}
  ELSE UNION {{c \o t : t \in LineTextsOfLen(n - Len(c))} :
                c \in {d \in LineClusters : Len(d) <= n}}

\* the buffer "abcdef\nxy\npqrstu"
ScenarioText ==
  <<"a", "b", "c", "d", "e", "f", "\n", "x", "y", "\n", "p", "q", "r", "s", "t", "u">>

LineTexts == UNION {LineTextsOfLen(n) : n \in 0..MaxLineTextLen} \cup {ScenarioText}

\* a buffer of lines with the cursor resting on a line
InitLines ==
  /\ InitTree
  /\ InitInput
  /\ InitRegexpIdle
  /\ InitXmlIdle
  /\ text \in LineTexts
  /\ \E pos \in 0..Len(text) :
       /\ OnLine(text, pos)
       /\ cursor = CursorState(pos, 0)
       /\ fromCursor = CursorState(pos, 0)
  /\ lastLoc = NoLoc
  /\ afterLineEnd = FALSE

\* the cursor moves to where a locator puts it
MoveCursor(loc, newCursor) ==
  /\ cursor' = newCursor
  /\ fromCursor' = cursor
  /\ lastLoc' = loc
  /\ afterLineEnd' = (lastLoc.name = "LineBoundary" /\ lastLoc.direction = "forward"
                      /\ ~lastLoc.include)
  /\ UNCHANGED text

CharInLine(direction, count, include) ==
  MoveCursor([name |-> "CharInLine", direction |-> direction, count |-> count,
              include |-> include],
             CharInLineLocate(text, cursor, direction, count, include))

LineBoundary(direction, include) ==
  MoveCursor([name |-> "LineBoundary", direction |-> direction, count |-> 0,
              include |-> include],
             LineBoundaryLocate(text, cursor, direction, include))

OntoLine ==
  MoveCursor([name |-> "OntoLine", direction |-> NONE, count |-> 0, include |-> FALSE],
             OntoLineLocate(text, cursor))

RelativeLine(direction, count) ==
  /\ RelativeLineLocate(text, cursor, direction, count).logicalOffset <= MaxOffset
  /\ MoveCursor([name |-> "RelativeLine", direction |-> direction, count |-> count,
                 include |-> FALSE],
                RelativeLineLocate(text, cursor, direction, count))

NonWhitespace(direction) ==
  MoveCursor([name |-> "NonWhitespace", direction |-> direction, count |-> 0,
              include |-> FALSE],
             NonWhitespaceLocate(text, cursor, direction))

(***************************************************************************)
(* Properties of CharInLine and LineBoundary                               *)
(***************************************************************************)

CharInLineWas(direction) ==
  lastLoc.name = "CharInLine" /\ lastLoc.direction = direction

\* the cursor moved at most count grapheme clusters, and not against the direction
MovedAtMostCount ==
  /\ CharInLineWas("forward") =>
       /\ cursor.position >= fromCursor.position
       /\ ClustersBetween(text, fromCursor.position, cursor.position) <= lastLoc.count
  /\ CharInLineWas("backward") =>
       /\ cursor.position <= fromCursor.position
       /\ ClustersBetween(text, cursor.position, fromCursor.position) <= lastLoc.count

\* CharInLine(forward, 1, false) right after LineBoundary(forward, false) leaves
\* the position unchanged
StaysAtLineEnd ==
  (afterLineEnd /\ CharInLineWas("forward") /\ lastLoc.count = 1 /\ ~lastLoc.include)
    => cursor.position = fromCursor.position

C10_WitnessForward ==
  /\ CharInLineWas("forward") /\ lastLoc.count = 2 /\ ~lastLoc.include
  /\ text = <<"a", "a", "\n">>
  /\ fromCursor.position = 0
  /\ cursor.position = 1

\* CharInLine(backward, 2, false) stopped on the first grapheme of the second line
C10_WitnessBackward ==
  /\ CharInLineWas("backward") /\ lastLoc.count = 2 /\ ~lastLoc.include
  /\ text = <<"\n", "a", "a">>
  /\ fromCursor.position = 2
  /\ cursor.position = 1

\* C11: CharInLine returns the cursor's logical offset when the located position
\* is the current position, and logical offset 0 when the position changes.
C11_CharInLineOffset ==
  lastLoc.name = "CharInLine" =>
    /\ cursor.position = fromCursor.position =>
         cursor.logicalOffset = fromCursor.logicalOffset
    /\ cursor.position # fromCursor.position => cursor.logicalOffset = 0

\* a move to the right, blocked at the end of a line shorter than the column the
\* cursor remembers, kept the remembered column
C11_Witness ==
  /\ CharInLineWas("forward") /\ ~lastLoc.include
  /\ fromCursor.logicalOffset > 0
  /\ fromCursor.position = LastOnLine(text, fromCursor.position)
  /\ cursor = fromCursor

\* a move to the left from a remembered column moved the cursor and forgot it
C11_WitnessReset ==
  /\ CharInLineWas("backward")
  /\ fromCursor.logicalOffset > 0
  /\ cursor.position # fromCursor.position
  /\ cursor.logicalOffset = 0

(***************************************************************************)
(* Properties of OntoLine                                                  *)
(***************************************************************************)

\* the start of the last grapheme cluster of a non-empty text
LastClusterStart(tree) == SetMax(ClusterStarts(tree, 0))

\* OntoLine ran with the cursor at or past the end of a non-empty text
OntoLineFromEnd ==
  lastLoc.name = "OntoLine" /\ Len(text) > 0 /\ fromCursor.position >= Len(text)

C12_WitnessNewline ==
  /\ OntoLineFromEnd
  /\ NewlineAt(text, LastClusterStart(text))
  /\ cursor.position = Len(text)

\* OntoLine ran with the cursor on a newline
OntoLineFromNewline ==
  lastLoc.name = "OntoLine" /\ NewlineAt(text, fromCursor.position)

\* the start of the last grapheme cluster before pos
ClusterBefore(tree, pos) == SetMax({q \in ClusterStarts(tree, 0) : q < pos})

\* from a newline OntoLine moves to the last grapheme before it on the same line,
\* and stays on the newline of an empty line
OntoLineStaysOnLine ==
  OntoLineFromNewline =>
    /\ cursor.position >= LineStart(text, fromCursor.position)
    /\ cursor.position = IF fromCursor.position \in LineStarts(text)
                         THEN fromCursor.position
                         ELSE ClusterBefore(text, fromCursor.position)

\* OntoLine applied to the result of OntoLine
OntoLineTwice ==
  (lastLoc.name = "OntoLine" /\ lastLoc'.name = "OntoLine")
    => cursor'.position = cursor.position

\* C13: OntoLine with the cursor on a newline moves to the start of the last
\* grapheme before that newline on the same line and never crosses into the prior
\* line: on an empty line the position is unchanged.  A second OntoLine never
\* changes the position again.
C13_OntoLineNewline ==
  []OntoLineStaysOnLine /\ [][OntoLineTwice]_vars

\* OntoLine moved the cursor from the newline of the second line to the grapheme
\* before it
C13_Witness ==
  /\ OntoLineFromNewline
  /\ text = <<"\n", "a", "\n">>
  /\ fromCursor.position = 2
  /\ cursor.position = 1

\* OntoLine left the cursor on the newline of an empty second line
C13_WitnessEmptyLine ==
  /\ OntoLineFromNewline
  /\ text = <<"a", "\n", "\n">>
  /\ fromCursor.position = 2
  /\ cursor.position = 2

(***************************************************************************)
(* Properties of RelativeLine                                              *)
(***************************************************************************)

RelativeLineWas(direction) ==
  lastLoc.name = "RelativeLine" /\ lastLoc.direction = direction

\* the starts of the lines below the line of pos; a newline that ends the text
\* starts no line
LinesBelow(tree, pos) ==
  {q \in LineStarts(tree) : q > LineStart(tree, pos) /\ q < Len(tree)}

\* the starts of the lines above the line of pos
LinesAbove(tree, pos) ==
  {q \in LineStarts(tree) : q < LineStart(tree, pos)}

\* the number of lines there are in the direction
LinesAvailable(tree, pos, direction) ==
  IF direction = "forward" THEN Cardinality(LinesBelow(tree, pos))
  ELSE Cardinality(LinesAbove(tree, pos))

\* the start of the line count lines away, when there are that many
TargetLineStart(tree, pos, direction, count) ==
  IF direction = "forward"
  THEN CHOOSE q \in LinesBelow(tree, pos) :
         Cardinality({r \in LinesBelow(tree, pos) : r <= q}) = count
  ELSE CHOOSE q \in LinesAbove(tree, pos) :
         Cardinality({r \in LinesAbove(tree, pos) : r >= q}) = count

\* the number of graphemes on the line that starts at lineStart
LineLength(tree, lineStart) ==
  ClustersBetween(tree, lineStart, LineEnd(tree, lineStart))

\* the position n <= LineLength graphemes after lineStart
AdvancedBy(tree, lineStart, n) ==
  CHOOSE q \in ClusterStarts(tree, 0) \cup {Len(tree)} :
    q >= lineStart /\ ClustersBetween(tree, lineStart, q) = n

\* target_col of the last locator: the graphemes between the line start and the
\* cursor, plus the logical offset
TargetCol ==
  ClustersBetween(text, LineStart(text, fromCursor.position), fromCursor.position)
    + fromCursor.logicalOffset

\* RelativeLine ran and the line count lines away exists
RelativeLineToTarget ==
  /\ lastLoc.name = "RelativeLine"
  /\ LinesAvailable(text, fromCursor.position, lastLoc.direction) >= lastLoc.count

TargetLine ==
  TargetLineStart(text, fromCursor.position, lastLoc.direction, lastLoc.count)

Min(a, b) == IF a <= b THEN a ELSE b

\* the cursor is actualCol graphemes into the target line and remembers the rest
\* of the target column
CursorAtCol(actualCol) ==
  /\ cursor.position = AdvancedBy(text, TargetLine, actualCol)
  /\ cursor.logicalOffset = TargetCol - actualCol

\* the last locator was one step down from the given cursor of the scenario
ScenarioDownFrom(position, logicalOffset) ==
  /\ text = ScenarioText
  /\ RelativeLineWas("forward") /\ lastLoc.count = 1
  /\ fromCursor = CursorState(position, logicalOffset)

\* C14 as stated: RelativeLine returns the target line's start advanced by
\* min(target_col, line_length) graphemes with logical_offset = target_col -
\* actual_col; on "abcdef\nxy\npqrstu" one step down from position 5 gives
\* position 9 with logical_offset 3 and a second step position 15 with
\* logical_offset 0.
C14_Original ==
  /\ RelativeLineToTarget =>
       CursorAtCol(Min(TargetCol, LineLength(text, TargetLine)))
  /\ ScenarioDownFrom(5, 0) => cursor = CursorState(9, 3)
  /\ ScenarioDownFrom(9, 3) => cursor = CursorState(15, 0)

\* the column RelativeLine reaches: the target column when the line has that
\* many graphemes, else the last grapheme of the line
ActualCol(targetCol, lineLength) ==
  IF targetCol <= lineLength THEN targetCol
  ELSE IF lineLength > 0 THEN lineLength - 1
  ELSE 0

\* C14: RelativeLine computes target_col = (graphemes between line start and
\* cursor) + logical_offset and returns the target line's start advanced by
\* actual_col graphemes with logical_offset = target_col - actual_col, where
\* actual_col = target_col when target_col <= line_length and line_length - 1
\* (0 on an empty line) otherwise.  On "abcdef\nxy\npqrstu" one step down from
\* position 5 gives position 8 with logical_offset 4, and a second step
\* position 15 with logical_offset 0.
C14_RelativeLineColumn ==
  /\ RelativeLineToTarget =>
       CursorAtCol(ActualCol(TargetCol, LineLength(text, TargetLine)))
  /\ ScenarioDownFrom(5, 0) => cursor = CursorState(8, 4)
  /\ ScenarioDownFrom(8, 4) => cursor = CursorState(15, 0)

\* the second step down of the scenario
C14_Witness ==
  /\ ScenarioDownFrom(8, 4)
  /\ cursor = CursorState(15, 0)

\* the first step down of the scenario
C14_WitnessFirstStep ==
  /\ ScenarioDownFrom(5, 0)
  /\ cursor = CursorState(8, 4)

\* one step up onto a line of one grapheme of two runes
C14_WitnessUp ==
  /\ RelativeLineWas("backward") /\ RelativeLineToTarget
  /\ text = <<"a", "m", "\n", "a">>
  /\ fromCursor = CursorState(3, 0)
  /\ cursor = CursorState(0, 0)

\* C15: RelativeLine(direction, count) aborts when there are insufficient lines:
\* if fewer than count line breaks exist in the direction (a newline that ends
\* the text counting as the end of the file when moving forward), the cursor
\* state is returned unchanged, for every count >= 1.
C15_AbortsWhenInsufficient ==
  (/\ lastLoc.name = "RelativeLine"
   /\ LinesAvailable(text, fromCursor.position, lastLoc.direction) < lastLoc.count)
    => cursor = fromCursor

\* C20: whenever the cursor's logical offset is positive, its position is the
\* start of the last grapheme cluster of its line.
C20_CursorInvariant ==
  cursor.logicalOffset > 0 => cursor.position = LastOnLine(text, cursor.position)

\* C21: when RelativeLine moves the cursor onto a non-empty target line, the
\* resulting position is the start of a grapheme of that line that is not a
\* newline: never the line's terminating newline and never past the end of the
\* text, for every target column, a target column equal to the number of
\* graphemes on the target line included.
C21_RelativeLineOnGrapheme ==
  (RelativeLineToTarget /\ LineLength(text, TargetLine) > 0) =>
    /\ cursor.position < Len(text)
    /\ cursor.position \in ClusterStarts(text, 0)
    /\ ~NewlineAt(text, cursor.position)
    /\ LineStart(text, cursor.position) = TargetLine

(***************************************************************************)
(* Properties of NonWhitespace                                             *)
(***************************************************************************)

NonWhitespaceWas(direction) ==
  lastLoc.name = "NonWhitespace" /\ lastLoc.direction = direction

WhitespaceAt(tree, pos) ==
  pos < Len(tree) /\ IsWhitespace(ForwardSegs(tree, pos)[1])

\* the starts of the non-whitespace grapheme clusters at or after pos
NonWhitespaceAfter(tree, pos) ==
  {q \in ClusterStarts(tree, 0) : q >= pos /\ ~WhitespaceAt(tree, q)}

\* the starts of the non-whitespace grapheme clusters before pos
NonWhitespaceBefore(tree, pos) ==
  {q \in ClusterStarts(tree, 0) : q < pos /\ ~WhitespaceAt(tree, q)}

\* there is whitespace to skip from pos in the direction
SomethingToSkip(tree, pos, direction) ==
  IF direction = "forward" THEN WhitespaceAt(tree, pos)
  ELSE pos > 0 /\ WhitespaceAt(tree, ClusterBefore(tree, pos))

\* with nothing to skip the cursor state is unchanged
NothingToSkipStays ==
  (/\ lastLoc.name = "NonWhitespace"
   /\ ~SomethingToSkip(text, fromCursor.position, lastLoc.direction))
    => cursor = fromCursor

C16_WitnessForward ==
  /\ NonWhitespaceWas("forward")
  /\ text = <<" ", " ", "a">>
  /\ fromCursor.position = 0
  /\ cursor.position = 2

\* NonWhitespace with nothing to skip kept a remembered column
C16_WitnessStays ==
  /\ lastLoc.name = "NonWhitespace"
  /\ fromCursor.logicalOffset > 0
  /\ cursor = fromCursor

(***************************************************************************)
(* Properties of ParseRegexp                                               *)
(***************************************************************************)

\* ---- the grammar of the regular expressions and what its expressions match:
\* expr := term ('|' term)*; term := factor+; factor := atom ('*' | '+' | '?')?;
\* atom := char | '.' | '^' | '$' | '\c' | '[' class ']' | '(' expr ')'

RefOk(node, pos) == [ok |-> TRUE, node |-> node, pos |-> pos]
RefFail == [ok |-> FALSE, node |-> [k |-> "none"], pos |-> 0]

\* the items of a class up to the closing bracket
RECURSIVE RefClassItems(_, _, _, _)
RefClassItems(s, pos, negated, chars) ==
  IF pos >= Len(s) THEN RefFail
  ELSE IF At(s, pos) = "]"
       THEN RefOk([k |-> "set", negated |-> negated, chars |-> chars], pos + 1)
  ELSE IF At(s, pos) = "\\"
       THEN IF pos + 1 < Len(s) /\ At(s, pos + 1) \in {"[", "]", "^", "\\"}
            THEN RefClassItems(s, pos + 2, negated, chars \cup {At(s, pos + 1)})
            ELSE RefFail
  ELSE RefClassItems(s, pos + 1, negated, chars \cup {At(s, pos)})

RECURSIVE RefExpr(_, _)
RECURSIVE RefExprRest(_, _, _)
RECURSIVE RefTerm(_, _)
RECURSIVE RefTermRest(_, _, _)
RECURSIVE RefFactor(_, _)
RECURSIVE RefAtom(_, _)

RefAtom(s, pos) ==
  IF pos >= Len(s) THEN RefFail
  ELSE
    CASE At(s, pos) = "(" ->
           LET e == RefExpr(s, pos + 1)
           IN IF e.ok /\ e.pos < Len(s) /\ At(s, e.pos) = ")"
              THEN RefOk(e.node, e.pos + 1)
              ELSE RefFail
      [] At(s, pos) = "[" ->
           IF pos + 1 < Len(s) /\ At(s, pos + 1) = "^"
           THEN RefClassItems(s, pos + 2, TRUE, {})
           ELSE RefClassItems(s, pos + 1, FALSE, {})
      [] At(s, pos) = "\\" ->
           IF pos + 1 < Len(s) THEN RefOk([k |-> "lit", c |-> At(s, pos + 1)], pos + 2)
           ELSE RefFail
      [] At(s, pos) = "." -> RefOk([k |-> "set", negated |-> TRUE, chars |-> {}], pos + 1)
      [] At(s, pos) = "^" -> RefOk([k |-> "bot"], pos + 1)
      [] At(s, pos) = "$" -> RefOk([k |-> "eot"], pos + 1)
      [] At(s, pos) \in {")", "|", "*", "+", "?"} -> RefFail
      [] OTHER -> RefOk([k |-> "lit", c |-> At(s, pos)], pos + 1)

RefFactor(s, pos) ==
  LET a == RefAtom(s, pos)
  IN IF ~a.ok THEN RefFail
     ELSE IF a.pos < Len(s) /\ At(s, a.pos) \in {"*", "+", "?"}
     THEN RefOk([k |-> At(s, a.pos), of |-> a.node], a.pos + 1)
     ELSE a

RefTermRest(s, pos, left) ==
  LET f == RefFactor(s, pos)
  IN IF f.ok THEN RefTermRest(s, f.pos, [k |-> "cat", l |-> left, r |-> f.node])
     ELSE RefOk(left, pos)

RefTerm(s, pos) ==
  LET f == RefFactor(s, pos)
  IN IF f.ok THEN RefTermRest(s, f.pos, f.node) ELSE RefFail

RefExprRest(s, pos, left) ==
  IF pos < Len(s) /\ At(s, pos) = "|"
  THEN LET t == RefTerm(s, pos + 1)
       IN IF t.ok THEN RefExprRest(s, t.pos, [k |-> "alt", l |-> left, r |-> t.node])
          ELSE RefFail
  ELSE RefOk(left, pos)

RefExpr(s, pos) ==
  LET t == RefTerm(s, pos)
  IN IF t.ok THEN RefExprRest(s, t.pos, t.node) ELSE RefFail

\* s is an expression of the grammar
InGrammar(s) == RefExpr(s, 0).ok /\ RefExpr(s, 0).pos = Len(s)

\* the expression node matches the bytes of subject from i up to j
RECURSIVE RefMatches(_, _, _, _)
RefMatches(node, subject, i, j) ==
  CASE node.k = "lit" -> j = i + 1 /\ At(subject, i) = node.c
    [] node.k = "set" -> j = i + 1 /\ ((At(subject, i) \in node.chars) # node.negated)
    [] node.k = "bot" -> i = j /\ i = 0
    [] node.k = "eot" -> i = j /\ i = Len(subject)
    [] node.k = "cat" ->
         \E m \in i..j : RefMatches(node.l, subject, i, m) /\ RefMatches(node.r, subject, m, j)
    [] node.k = "alt" ->
         RefMatches(node.l, subject, i, j) \/ RefMatches(node.r, subject, i, j)
    [] node.k = "?" -> i = j \/ RefMatches(node.of, subject, i, j)
    [] node.k = "*" ->
         \/ i = j
         \/ \E m \in (i + 1)..j : RefMatches(node.of, subject, i, m)
                                  /\ RefMatches(node, subject, m, j)
    [] node.k = "+" ->
         \/ RefMatches(node.of, subject, i, j)
         \/ \E m \in (i + 1)..(j - 1) : RefMatches(node.of, subject, i, m)
                                        /\ RefMatches(node, subject, m, j)

\* the strings the expressions are tried on
Subjects == StringsOver({"a", "b"}, MaxSubjectLen)

ScenarioAccepted ==
  {<<"a", "d">>, <<"a", "b", "d">>, <<"a", "c", "b", "c", "d">>}

ScenarioRejected == {<<"a", "b", "c">>, <<"a">>, <<>>}

\* C17: for every expression r of the grammar ParseRegexp(r) succeeds and the
\* tree it builds matches the same strings as r; "a(b|c)*d" matches "ad", "abd",
\* "acbcd" and rejects "abc", "a", "".
C17_ParseRegexpLanguage ==
  (regexpResult.parsed /\ InGrammar(regexpInput)) =>
    /\ regexpResult.err = NONE
    /\ \A subject \in Subjects \cup ScenarioAccepted \cup ScenarioRejected :
         CompileNfaMatches(regexpResult.regexp, subject)
           = RefMatches(RefExpr(regexpInput, 0).node, subject, 0, Len(subject))
    /\ regexpInput = ScenarioRegexp =>
         /\ \A subject \in ScenarioAccepted :
              CompileNfaMatches(regexpResult.regexp, subject)
         /\ \A subject \in ScenarioRejected :
              ~CompileNfaMatches(regexpResult.regexp, subject)

\* "a(b|c)*d" was parsed
C17_Witness ==
  /\ regexpResult.parsed
  /\ regexpInput = ScenarioRegexp
  /\ regexpResult.err = NONE
  /\ CompileNfaMatches(regexpResult.regexp, <<"a", "c", "b", "c", "d">>)

\* "ab+" was parsed: the plus binds to the b alone
C17_WitnessPlus ==
  /\ regexpResult.parsed
  /\ regexpInput = <<"a", "b", "+">>
  /\ CompileNfaMatches(regexpResult.regexp, <<"a", "b", "b">>)
  /\ ~CompileNfaMatches(regexpResult.regexp, <<"a", "b", "a">>)

\* ---- the malformed inputs ----

\* the position after the bracket that closes the class whose items start at
\* pos, or -1 when there is none
RECURSIVE ClassEnd(_, _)
ClassEnd(s, pos) ==
  IF pos >= Len(s) THEN -1
  ELSE IF At(s, pos) = "]" THEN pos + 1
  ELSE IF At(s, pos) = "\\" THEN ClassEnd(s, pos + 2)
  ELSE ClassEnd(s, pos + 1)

\* the lexical items of s from pos: "atom" for a character, an escape sequence or
\* a closed class, "quant" for a quantifier, the parentheses and the bar as
\* themselves, "badescape" for a trailing backslash and "openclass" for a class
\* that is not closed
RECURSIVE RegexpItems(_, _)
RegexpItems(s, pos) ==
  IF pos >= Len(s) THEN <<>>
  ELSE
    CASE At(s, pos) = "\\" ->
           IF pos + 1 >= Len(s) THEN <<"badescape">>
           ELSE <<"atom">> \o RegexpItems(s, pos + 2)
      [] At(s, pos) = "[" ->
           LET items == IF pos + 1 < Len(s) /\ At(s, pos + 1) = "^" THEN pos + 2
                        ELSE pos + 1
           IN IF ClassEnd(s, items) = -1 THEN <<"openclass">>
              ELSE <<"atom">> \o RegexpItems(s, ClassEnd(s, items))
      [] At(s, pos) \in {"(", ")", "|"} -> <<At(s, pos)>> \o RegexpItems(s, pos + 1)
      [] At(s, pos) \in {"*", "+", "?"} -> <<"quant">> \o RegexpItems(s, pos + 1)
      [] OTHER -> <<"atom">> \o RegexpItems(s, pos + 1)

\* the nesting depth after the first n items
RECURSIVE Depth(_, _)
Depth(items, n) ==
  IF n = 0 THEN 0
  ELSE Depth(items, n - 1) + (IF items[n] = "(" THEN 1 ELSE IF items[n] = ")" THEN -1 ELSE 0)

\* the expression ends where an operand is required
EndsWithoutOperand(items) ==
  items # <<>> /\ items[Len(items)] \in {"(", "|", "badescape"}

UnbalancedParen(items) ==
  \/ \E n \in 1..Len(items) : Depth(items, n) < 0
  \/ Depth(items, Len(items)) > 0

UnterminatedClass(items) ==
  items # <<>> /\ items[Len(items)] = "openclass"

\* a quantifier or a bar at the start of the expression, of a group or of an
\* alternative
OperatorWithoutAtom(items) ==
  \E n \in 1..Len(items) :
    /\ items[n] \in {"quant", "|"}
    /\ n = 1 \/ items[n - 1] \in {"(", "|"}

Malformed(s) ==
  \/ s = <<>>
  \/ EndsWithoutOperand(RegexpItems(s, 0))
  \/ UnbalancedParen(RegexpItems(s, 0))
  \/ UnterminatedClass(RegexpItems(s, 0))
  \/ OperatorWithoutAtom(RegexpItems(s, 0))

\* C18: ParseRegexp returns an error and no Regexp for the empty string, for an
\* expression that ends where an operand is required (after '(' or '|', or with a
\* trailing backslash), for an unbalanced '(' or ')', for a class with no closing
\* ']', and for a quantifier or a '|' with no preceding atom.
C18_ParseRegexpErrors ==
  (regexpResult.parsed /\ Malformed(regexpInput)) =>
    /\ regexpResult.err # NONE
    /\ regexpResult.regexp.type = "nil"

\* a quantifier at the start of an alternative was refused
C18_Witness ==
  /\ regexpResult.parsed
  /\ regexpInput = <<"a", "|", "*">>
  /\ regexpResult.err = "Expected characters before star"

\* a class that is not closed inside a group was refused
C18_WitnessClass ==
  /\ regexpResult.parsed
  /\ regexpInput = <<"(", "[", ")">>
  /\ regexpResult.err = "Expected closing bracket"

\* a closing parenthesis with no group open was refused
C18_WitnessParen ==
  /\ regexpResult.parsed
  /\ regexpInput = <<"a", ")">>
  /\ regexpResult.err = "Unexpected closing paren"

\* ---- the XML tokenizer ----

\* the step recorded a token
Emitted == Len(xmlTokens') = Len(xmlTokens) + 1

LastToken == xmlTokens'[Len(xmlTokens')]

TokenText(token) == SubSeq(xmlInput, token.start + 1, token.end)

\* '<' or '</' followed by a name
IsTagStartText(str) ==
  \E open \in {1, 2} :
    /\ open <= Len(str)
    /\ SubSeq(str, 1, open) = (IF open = 1 THEN <<"<">> ELSE <<"<", "/">>)
    /\ \A i \in (open + 1)..Len(str) : TagNameRune(str[i])

IsTagEndText(str) == str \in {<<">">>, <<"/", ">">>}

\* the state changes only with a Tag token
StateChangesOnTag ==
  xmlState' # xmlState => (Emitted /\ LastToken.role = xmlTokenRoleTag)

\* a Tag token is a tag start recognized in Normal that sets InTag, or a tag end
\* recognized in InTag that sets Normal
TagSetsState ==
  (Emitted /\ LastToken.role = xmlTokenRoleTag) =>
    \/ /\ xmlState = xmlParseStateNormal
       /\ IsTagStartText(TokenText(LastToken))
       /\ xmlState' = xmlParseStateInTag
    \/ /\ xmlState = xmlParseStateInTag
       /\ IsTagEndText(TokenText(LastToken))
       /\ xmlState' = xmlParseStateNormal

InTagRoles == {xmlTokenRoleAttrKey, TokenRoleString}

NormalRoles ==
  {TokenRoleComment, xmlTokenRolePrologue, xmlTokenRoleCData, xmlTokenRoleCharacterEntity}

RolesMatchState ==
  /\ (Emitted /\ LastToken.role \in InTagRoles) => xmlState = xmlParseStateInTag
  /\ (Emitted /\ LastToken.role \in NormalRoles) => xmlState = xmlParseStateNormal

\* a step records at most one token and never changes a recorded one
RecordsOneToken ==
  /\ Len(xmlTokens') <= Len(xmlTokens) + 1
  /\ SubSeq(xmlTokens', 1, Len(xmlTokens)) = xmlTokens

TokenRolesAndTexts ==
  [i \in 1..Len(xmlTokens) |-> <<xmlTokens[i].role, TokenText(xmlTokens[i])>>]

ScenarioXmlTokens ==
  <<<<xmlTokenRoleTag, <<"<", "a">>>>, <<xmlTokenRoleAttrKey, <<"x", "=">>>>,
    <<TokenRoleString, <<"\"", "1", "\"">>>>, <<xmlTokenRoleTag, <<">">>>>,
    <<xmlTokenRoleTag, <<"<", "/", "a">>>>, <<xmlTokenRoleTag, <<">">>>>>>

ScenarioXmlDone ==
  (xmlInput = ScenarioXml /\ xmlPos >= Len(xmlInput)) =>
    TokenRolesAndTexts = ScenarioXmlTokens

\* C19: the parser state starts Normal and changes only on Tag tokens: a tag
\* start recognized in Normal sets InTag and a tag end recognized in InTag sets
\* Normal; attribute-key and string tokens are emitted only in InTag, and
\* comment, prologue, CDATA and character-entity tokens only in Normal; for
\* <a x="1">hi</a> the tokens are Tag '<a', AttrKey 'x=', String '"1"', Tag '>',
\* Tag '</a', Tag '>'.
C19_XmlTokenizerState ==
  /\ xmlState = xmlParseStateNormal
  /\ [][StateChangesOnTag /\ TagSetsState /\ RolesMatchState /\ RecordsOneToken]_vars
  /\ []ScenarioXmlDone

\* the scenario document was tokenized to its end
C19_Witness ==
  /\ xmlInput = ScenarioXml
  /\ xmlPos = Len(xmlInput)
  /\ Len(xmlTokens) = 6
  /\ xmlState = xmlParseStateNormal

\* a document with a prologue, a comment, a self-closing tag with an attribute, a
\* character entity and a CDATA section was tokenized to its end
C19_WitnessRoles ==
  /\ xmlInput = ProloguedXml
  /\ xmlPos = Len(xmlInput)
  /\ [i \in 1..Len(xmlTokens) |-> xmlTokens[i].role] =
       <<xmlTokenRolePrologue, TokenRoleComment, xmlTokenRoleTag, xmlTokenRoleAttrKey,
         TokenRoleString, xmlTokenRoleTag, xmlTokenRoleCharacterEntity, xmlTokenRoleCData>>

\* a string that runs to the tag's '>' left the tokenizer in a tag at the end of
\* the document
C19_WitnessInTag ==
  /\ xmlPos = Len(xmlInput)
  /\ xmlState = xmlParseStateInTag
  /\ xmlTokens # <<>>
  /\ xmlTokens[Len(xmlTokens)].role = TokenRoleString

(***************************************************************************)
(* Specifications                                                          *)
(***************************************************************************)

\* the state after construction: the empty tree, the interpreter in normal mode
Init == InitTree /\ InitInput /\ InitLocatorIdle /\ InitRegexpIdle /\ InitXmlIdle

\* the tokenizer builds a tree while readers iterate over it
NextTree ==
  \/ \E token \in TokenArgs : InsertToken(token) /\ UNCHANGED <<inputVars, locVars, regexpVars, xmlVars>>
  \/ \E pos \in 0..MaxPos : NewIter(pos) /\ UNCHANGED <<inputVars, locVars, regexpVars, xmlVars>>
  \/ AdvanceIter /\ UNCHANGED <<inputVars, locVars, regexpVars, xmlVars>>

SpecTree == Init /\ [][NextTree]_vars

\* a tree is built, split at a position and joined again, with a reader on it
NextJoin ==
  \/ \E token \in TokenArgs : InsertToken(token) /\ UNCHANGED <<inputVars, locVars, regexpVars, xmlVars>>
  \/ NewIter(0) /\ UNCHANGED <<inputVars, locVars, regexpVars, xmlVars>>
  \/ \E pos \in 0..MaxPos, order \in Orders : Split(pos, order) /\ UNCHANGED <<inputVars, locVars, regexpVars, xmlVars>>
  \/ \E recv \in {"a", "b"} : JoinSplit(recv) /\ UNCHANGED <<inputVars, locVars, regexpVars, xmlVars>>

SpecJoin == Init /\ [][NextJoin]_vars

\* the main loop reads key events, interprets them and applies the actions
NextInput ==
  \/ \E event \in KeyEvents : ProcessKeyEvent(event) /\ UNCHANGED <<treeVars, locVars, regexpVars, xmlVars>>
  \/ ProcessResizeEvent /\ UNCHANGED <<treeVars, locVars, regexpVars, xmlVars>>
  \/ ApplyAction /\ UNCHANGED <<treeVars, locVars, regexpVars, xmlVars>>
  \/ TaskCompletes /\ UNCHANGED <<treeVars, locVars, regexpVars, xmlVars>>

SpecInput == Init /\ [][NextInput]_vars

\* commands move the cursor of an unchanged buffer with the locators
NextLocator ==
  \/ \E direction \in Directions, count \in 1..MaxCount, include \in BOOLEAN :
       CharInLine(direction, count, include) /\ UNCHANGED <<treeVars, inputVars, regexpVars, xmlVars>>
  \/ \E direction \in Directions, include \in BOOLEAN :
       LineBoundary(direction, include) /\ UNCHANGED <<treeVars, inputVars, regexpVars, xmlVars>>
  \/ OntoLine /\ UNCHANGED <<treeVars, inputVars, regexpVars, xmlVars>>
  \/ \E direction \in Directions, count \in 1..MaxCount :
       RelativeLine(direction, count) /\ UNCHANGED <<treeVars, inputVars, regexpVars, xmlVars>>
  \/ \E direction \in Directions :
       NonWhitespace(direction) /\ UNCHANGED <<treeVars, inputVars, regexpVars, xmlVars>>

SpecLocator == InitLocator /\ [][NextLocator]_vars

SpecLines == InitLines /\ [][NextLocator]_vars

\* a string to parse
InitRegexp ==
  /\ InitTree
  /\ InitInput
  /\ InitLocatorIdle
  /\ InitXmlIdle
  /\ regexpInput \in RegexpInputs
  /\ regexpResult = NotParsed

NextRegexp ==
  ParseRegexpStep /\ UNCHANGED <<treeVars, inputVars, locVars, xmlVars>>

SpecRegexp == InitRegexp /\ [][NextRegexp]_vars

\* a document about to be tokenized
InitXml ==
  /\ InitTree
  /\ InitInput
  /\ InitLocatorIdle
  /\ InitRegexpIdle
  /\ xmlInput \in XmlInputs
  /\ xmlPos = 0
  /\ xmlState = XmlInitialState
  /\ xmlTokens = <<>>
  /\ emptyRunOk \in BOOLEAN

NextXml ==
  TokenizeStep /\ UNCHANGED <<treeVars, inputVars, locVars, regexpVars>>

SpecXml == InitXml /\ [][NextXml]_vars

====
